---------------------------- MODULE Spec2Model ----------------------------
(***************************************************************************)
(* A model of src/main.go: the startup pipeline of the tunneled proxy      *)
(* endpoint (main, startServices, startServer, extractDomains,             *)
(* generateLinks, uploadNodes, deleteNodes, cleanupTempFiles) together     *)
(* with the subscription route Service.Sub, the detached cleanup task and  *)
(* the tunnel subprocess that writes the boot log.                         *)
(*                                                                         *)
(* Go strings are modelled as sequences of one-character strings, so that  *)
(* the regular expressions, strings.Contains, strings.Split, fmt.Sprintf   *)
(* and the base64 codec are computed character by character.               *)
(***************************************************************************)
EXTENDS Integers, Sequences, FiniteSets, TLC

(***************************************************************************)
(* Text primitives                                                         *)
(***************************************************************************)

\* The printable ASCII characters, code 32 (space) to 126 (~), in order.
Ascii ==
  <<" ","!","\"","#","$","%","&","'","(",")","*","+",",","-",".","/",
    "0","1","2","3","4","5","6","7","8","9",":",";","<","=",">","?","@",
    "A","B","C","D","E","F","G","H","I","J","K","L","M","N","O","P","Q",
    "R","S","T","U","V","W","X","Y","Z","[","\\","]","^","_","<96>",
    "a","b","c","d","e","f","g","h","i","j","k","l","m","n","o","p","q",
    "r","s","t","u","v","w","x","y","z","{","|","}","~">>

\* The character standing for any byte that is neither printable nor \n, \r, \t.
NonPrintable == "<np>"

\* The characters of the model: the printable ones, \n, \r, \t and the
\* stand-in for every other byte.
Chars == {Ascii[k] : k \in 1..Len(Ascii)} \cup {"\n", "\r", "\t", NonPrintable}

\* The byte value of each character.
OrdTable ==
  [c \in Chars |->
     IF c = "\n" THEN 10
     ELSE IF c = "\r" THEN 13
     ELSE IF c = "\t" THEN 9
     ELSE IF c = NonPrintable THEN 0
     ELSE 31 + (CHOOSE k \in 1..Len(Ascii) : Ascii[k] = c)]

\* The byte value of a character.
Ord(c) == OrdTable[c]

\* The character of a byte value.
Chr(b) ==
  IF b = 10 THEN "\n"
  ELSE IF b = 13 THEN "\r"
  ELSE IF b = 9 THEN "\t"
  ELSE IF b >= 32 /\ b <= 126 THEN Ascii[b - 31]
  ELSE NonPrintable

\* The string of n copies of character c.
Rep(c, n) == [k \in 1..n |-> c]

\* s[from..to], empty when from > to.
Slice(s, from, to) == SubSeq(s, from, to)

\* Whether pat occurs in s starting at position p.
StartsAt(s, p, pat) ==
  /\ p >= 1
  /\ p + Len(pat) - 1 <= Len(s)
  /\ \A k \in 1..Len(pat) : s[p + k - 1] = pat[k]

\* strings.Contains(s, pat)
Contains(s, pat) == \E p \in 1..(Len(s) - Len(pat) + 1) : StartsAt(s, p, pat)

\* strings.ReplaceAll(s, old, new) for one-character old and new.
ReplaceAll(s, old, new) == [k \in 1..Len(s) |-> IF s[k] = old THEN new ELSE s[k]]

\* strings.Split(s, sep) for a one-character sep: the fields between the
\* separators, empty fields included; one field when sep does not occur.
Split(s, sep) ==
  LET seps == {k \in 1..Len(s) : s[k] = sep}
      m == Cardinality(seps)
      \* the position of the j-th separator; 0 before the first field and
      \* Len(s) + 1 after the last
      Pos(j) == IF j = 0 THEN 0
                ELSE IF j = m + 1 THEN Len(s) + 1
                ELSE CHOOSE k \in seps : Cardinality({x \in seps : x < k}) = j - 1
  IN [j \in 1..(m + 1) |-> Slice(s, Pos(j - 1) + 1, Pos(j) - 1)]

\* The white space strings.TrimSpace removes (ASCII part).
IsSpace(c) == c \in {" ", "\n", "\r", "\t"}

\* strings.TrimSpace(s)
TrimSpace(s) ==
  LET keep == {k \in 1..Len(s) : ~IsSpace(s[k])}
  IN IF keep = {} THEN <<>>
     ELSE LET lo == CHOOSE k \in keep : \A j \in keep : k <= j
              hi == CHOOSE k \in keep : \A j \in keep : k >= j
          IN Slice(s, lo, hi)

\* The decimal digits of the %d verb.
Digits == <<"0","1","2","3","4","5","6","7","8","9">>

\* fmt.Sprintf("%d", n) for n >= 0.
RECURSIVE Itoa(_)
Itoa(n) == IF n < 10 THEN <<Digits[n + 1]>>
           ELSE Itoa(n \div 10) \o <<Digits[(n % 10) + 1]>>

\* The concatenation of parts[lo..hi].
RECURSIVE ConcatRange(_, _, _)
ConcatRange(parts, lo, hi) ==
  IF lo > hi THEN <<>>
  ELSE IF lo = hi THEN parts[lo]
  ELSE LET mid == (lo + hi) \div 2
       IN ConcatRange(parts, lo, mid) \o ConcatRange(parts, mid + 1, hi)

\* The concatenation of the strings of a sequence.
Concat(parts) == ConcatRange(parts, 1, Len(parts))

(***************************************************************************)
(* encoding/base64, StdEncoding                                            *)
(***************************************************************************)

\* The alphabet of base64.StdEncoding.
B64Alphabet ==
  <<"A","B","C","D","E","F","G","H","I","J","K","L","M","N","O","P","Q",
    "R","S","T","U","V","W","X","Y","Z",
    "a","b","c","d","e","f","g","h","i","j","k","l","m","n","o","p","q",
    "r","s","t","u","v","w","x","y","z",
    "0","1","2","3","4","5","6","7","8","9","+","/">>

\* The padding character of base64.StdEncoding.
B64Pad == "="

\* 64^e for e in 0..3
Pow64(e) == IF e = 0 THEN 1 ELSE IF e = 1 THEN 64 ELSE IF e = 2 THEN 4096 ELSE 262144

\* base64.StdEncoding.EncodeToString(s): every 3 bytes give 4 characters,
\* a final group of 1 or 2 bytes is padded with "=".
EncodeToString(s) ==
  LET n == Len(s)
      outLen == 4 * ((n + 2) \div 3)
      Byte(k) == IF k <= n THEN Ord(s[k]) ELSE 0
      Out(j) ==
        LET g == (j - 1) \div 4
            r == (j - 1) % 4
            val == Byte(3*g + 1) * 65536 + Byte(3*g + 2) * 256 + Byte(3*g + 3)
        IN IF r >= 2 /\ 3*g + r > n
           THEN B64Pad
           ELSE B64Alphabet[((val \div Pow64(3 - r)) % 64) + 1]
  IN <<>> \o [j \in 1..outLen |-> Out(j)]

\* The 6-bit value of each character of the alphabet, -1 for any other.
B64Table ==
  [c \in Chars |->
     IF \E k \in 1..Len(B64Alphabet) : B64Alphabet[k] = c
     THEN (CHOOSE k \in 1..Len(B64Alphabet) : B64Alphabet[k] = c) - 1
     ELSE -1]

\* The 6-bit value of a character of the alphabet, -1 for any other.
B64Value(c) == B64Table[c]

\* The input of DecodeString with the characters it skips (\r and \n) removed.
B64Strip(s) == SelectSeq(s, LAMBDA c : c \notin {"\r", "\n"})

\* base64.StdEncoding.DecodeString(s): [ok, data].  The input, \r and \n
\* skipped, must be groups of 4 characters of the alphabet; only the last
\* group may end in "=" or "==".  ok = FALSE is a CorruptInputError.
DecodeString(s) ==
  LET t == B64Strip(s)
      n == Len(t)
      groups == n \div 4
      padLen == IF n >= 2 /\ t[n] = B64Pad
                THEN (IF t[n - 1] = B64Pad THEN 2 ELSE 1)
                ELSE 0
      wellFormed ==
        /\ n % 4 = 0
        /\ \A k \in 1..(n - padLen) : B64Value(t[k]) >= 0
      outLen == 3 * groups - padLen
      Val(k) == IF k <= n - padLen THEN B64Value(t[k]) ELSE 0
      Out(j) ==
        LET g == (j - 1) \div 3
            r == (j - 1) % 3
            val == Val(4*g + 1) * 262144 + Val(4*g + 2) * 4096
                   + Val(4*g + 3) * 64 + Val(4*g + 4)
        IN Chr((val \div (IF r = 0 THEN 65536 ELSE IF r = 1 THEN 256 ELSE 1)) % 256)
  IN IF wellFormed
     THEN [ok |-> TRUE, data |-> <<>> \o [j \in 1..outLen |-> Out(j)]]
     ELSE [ok |-> FALSE, data |-> <<>>]

(***************************************************************************)
(* The regular expressions of the program                                  *)
(***************************************************************************)

\* The character class [A-Z0-9a-z=] of the token pattern.
TokenChars ==
  {"A","B","C","D","E","F","G","H","I","J","K","L","M","N","O","P","Q","R",
   "S","T","U","V","W","X","Y","Z","0","1","2","3","4","5","6","7","8","9",
   "a","b","c","d","e","f","g","h","i","j","k","l","m","n","o","p","q","r",
   "s","t","u","v","w","x","y","z","="}

\* The least length the token pattern accepts.
TokenMinLen == 120

\* The greatest length the token pattern accepts.
TokenMaxLen == 250

\* regexp.MatchString(`^[A-Z0-9a-z=]{120,250}$`, s)
MatchToken(s) ==
  /\ Len(s) >= TokenMinLen
  /\ Len(s) <= TokenMaxLen
  /\ \A k \in 1..Len(s) : s[k] \in TokenChars

\* The marker of a structured (JSON) tunnel secret.
TunnelSecret == <<"T","u","n","n","e","l","S","e","c","r","e","t">>

\* The alternatives of the node pattern, each followed by "://".
NodeSchemes ==
  << <<"v","l","e","s","s",":","/","/">>,
     <<"v","m","e","s","s",":","/","/">>,
     <<"t","r","o","j","a","n",":","/","/">>,
     <<"h","y","s","t","e","r","i","a","2",":","/","/">>,
     <<"t","u","i","c",":","/","/">> >>

\* regexp.MatchString(`(vless|vmess|trojan|hysteria2|tuic)://`, line): the
\* pattern is not anchored, it matches anywhere in the line: at some ":"
\* one of the alternatives ends with "://".
MatchNode(line) ==
  \E p \in 1..Len(line) :
    /\ line[p] = ":"
    /\ \E k \in 1..Len(NodeSchemes) :
         StartsAt(line, p - Len(NodeSchemes[k]) + 3, NodeSchemes[k])

\* The node list deleteNodes and uploadNodes build from a decoded artifact:
\* the lines that match the node pattern, in order, each trimmed.
ExtractNodes(decoded) ==
  LET lines == Split(decoded, "\n")
      F[k \in 0..Len(lines)] ==
        IF k = 0 THEN <<>>
        ELSE IF MatchNode(lines[k])
             THEN Append(F[k - 1], TrimSpace(lines[k]))
             ELSE F[k - 1]
  IN F[Len(lines)]

\* The provider suffix of the domain pattern.
TryCloudflare == <<"t","r","y","c","l","o","u","d","f","l","a","r","e",".","c","o","m">>

\* The length of the scheme ("http://" or "https://") of the domain
\* pattern at position p of s, 0 when neither is there.
SchemeLenAt(s, p) ==
  IF StartsAt(s, p, <<"h","t","t","p","s",":","/","/">>) THEN 8
  ELSE IF StartsAt(s, p, <<"h","t","t","p",":","/","/">>) THEN 7
  ELSE 0

\* The ends e of a match of [^/]*trycloudflare\.com that starts at position
\* q of s: s[q..e] holds no "/" and ends with the provider suffix.
CaptureEnds(s, q) ==
  {e \in q..Len(s) :
     /\ \A k \in q..e : s[k] # "/"
     /\ StartsAt(s, e - Len(TryCloudflare) + 1, TryCloudflare)
     /\ e - Len(TryCloudflare) + 1 >= q}

\* The positions of s where `https?://([^/]*trycloudflare\.com)/?` matches.
MatchStarts(s) ==
  {p \in 1..Len(s) : SchemeLenAt(s, p) > 0 /\ CaptureEnds(s, p + SchemeLenAt(s, p)) # {}}

\* A matcher that finds the pattern only at the start of the content: with
\* it in the place of FindStringSubmatch the property of C2 fails.
FindAnchored(content) ==
  IF 1 \in MatchStarts(content)
  THEN LET q == 1 + SchemeLenAt(content, 1)
           ends == CaptureEnds(content, q)
       IN [found |-> TRUE, domain |-> Slice(content, q, CHOOSE x \in ends : \A y \in ends : x >= y)]
  ELSE [found |-> FALSE, domain |-> <<>>]

\* re.FindStringSubmatch(content) for `https?://([^/]*trycloudflare\.com)/?`:
\* [found, domain], the capture group of the leftmost match; [^/]* is greedy,
\* so the capture runs to the last end the pattern allows.
FindStringSubmatch(content) ==
  LET starts == MatchStarts(content)
  IN IF starts = {} THEN [found |-> FALSE, domain |-> <<>>]
     ELSE LET p == CHOOSE x \in starts : \A y \in starts : x <= y
              q == p + SchemeLenAt(content, p)
              ends == CaptureEnds(content, q)
              e == CHOOSE x \in ends : \A y \in ends : x >= y
          IN [found |-> TRUE, domain |-> Slice(content, q, e)]

(***************************************************************************)
(* Config and the inputs of a run                                          *)
(***************************************************************************)

\* getEnv("UUID", ...): the default identity token.
DefaultUUID ==
  <<"b","a","1","b","e","a","2","a","-","c","b","b","7","-","4","1","b","d",
    "-","9","3","3","3","-","6","5","3","1","f","f","8","a","5","b","3","1">>

\* getEnv("CFIP", "linux.do")
DefaultCFIP ==
  <<"l","i","n","u","x",".","d","o">>

\* getEnv("NAME", "encore.app")
DefaultName ==
  <<"e","n","c","o","r","e",".","a","p","p">>

\* getEnv("SUB_PATH", "sub")
DefaultSubPath ==
  <<"s","u","b">>

\* getEnv("FILE_PATH", "./tmp") as filepath.Join cleans it.
FilePath ==
  <<"t","m","p">>

\* getEnvAsInt("ARGO_PORT", 8001)
DefaultArgoPort == 8001

\* getEnvAsInt("CFPORT", 443)
DefaultCFPort == 443

\* filepath.Join(cfg.FilePath, name) as text.
PathOf(name) == FilePath \o <<"/">> \o name

\* An aggregator URL (UPLOAD_URL).
AggregatorURL ==
  <<"h","t","t","p",":","/","/","a">>

\* A public project URL (PROJECT_URL).
PublicURL ==
  <<"h","t","t","p",":","/","/","p">>

\* A tunnel hostname (ARGO_DOMAIN).
TunnelHost ==
  <<"d",".","i","o">>

\* A structured tunnel secret (ARGO_AUTH) with a TunnelID.
SecretJSON ==
  <<"{","\"","T","u","n","n","e","l","S","e","c","r","e","t","\"",":","\"","c",
    "2","V","j","\"",",","\"","T","u","n","n","e","l","I","D","\"",":","\"","t",
    "1","\"","}">>

\* A structured tunnel secret without a TunnelID.
SecretNoID ==
  <<"{","\"","T","u","n","n","e","l","S","e","c","r","e","t","\"",":","\"","c",
    "2","V","j","\"","}">>

\* The tunnel credentials (ARGO_AUTH) a run is started with: empty; a short
\* string; strings of token characters of length 119, 120, 250 and 251; a
\* string of 120 characters one of which is no token character; a string of
\* token characters of token length that contains the marker; the marker
\* alone (no JSON); and the two structured secrets.
Credentials ==
  { <<>>,
    <<"a","b","c">>,
    Rep("a", TokenMinLen - 1),
    Rep("A", TokenMinLen),
    Rep("=", TokenMaxLen),
    Rep("9", TokenMaxLen + 1),
    Rep("a", TokenMinLen - 1) \o <<"!">>,
    Rep("a", TokenMinLen) \o TunnelSecret,
    TunnelSecret,
    SecretJSON,
    SecretNoID }

\* loadConfig() with no variable of the environment set.
DefaultConfig ==
  [ UploadURL   |-> <<>>,
    ProjectURL  |-> <<>>,
    AutoAccess  |-> FALSE,
    SubPath     |-> DefaultSubPath,
    UUID        |-> DefaultUUID,
    NezhaServer |-> <<>>,
    NezhaPort   |-> <<>>,
    NezhaKey    |-> <<>>,
    ArgoDomain  |-> <<>>,
    ArgoAuth    |-> <<>>,
    ArgoPort    |-> DefaultArgoPort,
    CFIP        |-> DefaultCFIP,
    CFPort      |-> DefaultCFPort,
    Name        |-> DefaultName ]

\* The values of runtime.GOARCH of a run.
GoArchs == {"arm64", "amd64"}

\* getSystemArchitecture()
getSystemArchitecture(goarch) ==
  IF goarch = "arm" \/ goarch = "arm64" \/ goarch = "aarch64" THEN "arm" ELSE "amd"

(***************************************************************************)
(* BinaryProvisioner: the file set                                         *)
(***************************************************************************)

\* The download host of the arm class.
ArmHost ==
  <<"h","t","t","p","s",":","/","/","a","r","m","6","4",".","s","s","s","s",
    ".","n","y","c",".","m","n","/">>

\* The download host of the amd class.
AmdHost ==
  <<"h","t","t","p","s",":","/","/","a","m","d","6","4",".","s","s","s","s",
    ".","n","y","c",".","m","n","/">>

\* The download URL of a remote name for an architecture class.
FileUrl(architecture, remote) ==
  (IF architecture = "arm" THEN ArmHost ELSE AmdHost) \o remote

\* A test of the monitoring settings that looks at the server only: with
\* it in the place of NezhaConfigured the property of C8 fails.
ServerOnly(c) == c.NezhaServer # <<>>

\* Whether a monitoring agent is configured.
NezhaConfigured(c) == c.NezhaServer # <<>> /\ c.NezhaKey # <<>>

\* getFilesForArchitecture(architecture): the ordered (fileName, fileUrl)
\* pairs; the monitoring binary, when there is one, comes first.
getFilesForArchitecture(architecture, c) ==
  LET baseFiles ==
        << [fileName |-> "web", fileUrl |-> FileUrl(architecture, <<"w","e","b">>)],
           [fileName |-> "bot", fileUrl |-> FileUrl(architecture, <<"2","g","o">>)] >>
  IN IF NezhaConfigured(c)
     THEN IF c.NezhaPort # <<>>
          THEN << [fileName |-> "npm",
                   fileUrl |-> FileUrl(architecture, <<"a","g","e","n","t">>)] >>
               \o baseFiles
          ELSE << [fileName |-> "php",
                   fileUrl |-> FileUrl(architecture, <<"v","1">>)] >>
               \o baseFiles
     ELSE baseFiles

(***************************************************************************)
(* ConfigGenerator: the rendered documents                                 *)
(***************************************************************************)

\* The proxy config document of generateXRayConfig.  Of the JSON document
\* only the two values that come from the Config are kept: the port of the
\* tunnel-facing inbound and the identity token of the clients.
XRayConfigDoc(c) ==
  <<"{","\"","p","o","r","t","\"",":">> \o Itoa(c.ArgoPort)
  \o <<",","\"","i","d","\"",":","\"">> \o c.UUID \o <<"\"","}">>

\* config.yaml, up to the client secret.
YamlHead ==
  <<"\n","c","l","i","e","n","t","_","s","e","c","r","e","t",":"," ">>

\* config.yaml, from the client secret to the server.
YamlMid ==
  <<"\n","d","e","b","u","g",":"," ","f","a","l","s","e","\n","d","i","s","a",
    "b","l","e","_","a","u","t","o","_","u","p","d","a","t","e",":"," ","t",
    "r","u","e","\n","d","i","s","a","b","l","e","_","c","o","m","m","a","n",
    "d","_","e","x","e","c","u","t","e",":"," ","f","a","l","s","e","\n","d",
    "i","s","a","b","l","e","_","f","o","r","c","e","_","u","p","d","a","t",
    "e",":"," ","t","r","u","e","\n","d","i","s","a","b","l","e","_","n","a",
    "t",":"," ","f","a","l","s","e","\n","d","i","s","a","b","l","e","_","s",
    "e","n","d","_","q","u","e","r","y",":"," ","f","a","l","s","e","\n","g",
    "p","u",":"," ","f","a","l","s","e","\n","i","n","s","e","c","u","r","e",
    "_","t","l","s",":"," ","f","a","l","s","e","\n","i","p","_","r","e","p",
    "o","r","t","_","p","e","r","i","o","d",":"," ","1","8","0","0","\n","r",
    "e","p","o","r","t","_","d","e","l","a","y",":"," ","1","\n","s","e","r",
    "v","e","r",":"," ">>

\* config.yaml, from the server to the uuid.
YamlTail ==
  <<"\n","s","k","i","p","_","c","o","n","n","e","c","t","i","o","n","_","c",
    "o","u","n","t",":"," ","f","a","l","s","e","\n","s","k","i","p","_","p",
    "r","o","c","s","_","c","o","u","n","t",":"," ","f","a","l","s","e","\n",
    "t","e","m","p","e","r","a","t","u","r","e",":"," ","f","a","l","s","e",
    "\n","t","l","s",":"," ","f","a","l","s","e","\n","u","s","e","_","g","i",
    "t","e","e","_","t","o","_","u","p","g","r","a","d","e",":"," ","f","a",
    "l","s","e","\n","u","s","e","_","i","p","v","6","_","c","o","u","n","t",
    "r","y","_","c","o","d","e",":"," ","f","a","l","s","e","\n","u","u","i",
    "d",":"," ">>

\* The monitoring-agent document (config.yaml) of startServer.
ConfigYaml(c) ==
  YamlHead \o c.NezhaKey \o YamlMid \o c.NezhaServer \o YamlTail \o c.UUID

\* tunnel.yml, up to the tunnel id.
TunnelYml1 ==
  <<"\n","t","u","n","n","e","l",":"," ">>

\* tunnel.yml, from the tunnel id to the credentials file.
TunnelYml2 ==
  <<"\n","c","r","e","d","e","n","t","i","a","l","s","-","f","i","l","e",":",
    " ">>

\* tunnel.yml, from the credentials file to the hostname.
TunnelYml3 ==
  <<"\n","p","r","o","t","o","c","o","l",":"," ","h","t","t","p","2","\n","\n",
    "i","n","g","r","e","s","s",":","\n"," "," ","-"," ","h","o","s","t","n",
    "a","m","e",":"," ">>

\* tunnel.yml, from the hostname to the port.
TunnelYml4 ==
  <<"\n"," "," "," "," ","s","e","r","v","i","c","e",":"," ","h","t","t","p",
    ":","/","/","l","o","c","a","l","h","o","s","t",":">>

\* tunnel.yml, after the port.
TunnelYml5 ==
  <<"\n"," "," "," "," ","o","r","i","g","i","n","R","e","q","u","e","s","t",
    ":","\n"," "," "," "," "," "," ","n","o","T","L","S","V","e","r","i","f",
    "y",":"," ","t","r","u","e","\n"," "," ","-"," ","s","e","r","v","i","c",
    "e",":"," ","h","t","t","p","_","s","t","a","t","u","s",":","4","0","4",
    "\n">>

\* The tunnel ingress document (tunnel.yml) of generateArgoConfig.
TunnelYaml(tunnelID, c) ==
  TunnelYml1 \o tunnelID
  \o TunnelYml2 \o PathOf(<<"t","u","n","n","e","l",".","j","s","o","n">>)
  \o TunnelYml3 \o c.ArgoDomain
  \o TunnelYml4 \o Itoa(c.ArgoPort)
  \o TunnelYml5

\* The key whose string value generateArgoConfig reads from the secret.
TunnelIDKey == <<"T","u","n","n","e","l","I","D">>

\* json.Unmarshal of the credential into a map, then tunnelData["TunnelID"]
\* as a string: [ok, id].  The parser accepts the JSON objects whose members
\* are all strings, written without white space and without escapes; on
\* every credential of Credentials it answers as encoding/json does.
ParseTunnelID(s) ==
  LET parts == Split(s, "\"")
      n == Len(parts)
      members == (n - 1) \div 4
      clean == \A k \in 1..Len(s) : s[k] # "\\"
      isObject ==
        /\ clean
        /\ n >= 5
        /\ (n - 1) % 4 = 0
        /\ parts[1] = <<"{">>
        /\ parts[n] = <<"}">>
        /\ \A j \in 0..(members - 1) :
             /\ parts[3 + 4*j] = <<":">>
             /\ j < members - 1 => parts[5 + 4*j] = <<",">>
      isEmptyObject == s = <<"{","}">>
      hits == IF isObject
              THEN {j \in 0..(members - 1) : parts[2 + 4*j] = TunnelIDKey}
              ELSE {}
  IN IF isObject /\ hits # {}
     THEN [ok |-> TRUE, parsed |-> TRUE,
           id |-> parts[4 + 4 * (CHOOSE j \in hits : \A h \in hits : j >= h)]]
     ELSE [ok |-> FALSE, parsed |-> isObject \/ isEmptyObject, id |-> <<>>]

(***************************************************************************)
(* LinkGenerator: the text of the subscription artifact                    *)
(***************************************************************************)

\* What the %s verb prints for a nil interface value.
NilText == <<"%","!","s","(","<","n","i","l",">",")">>

\* The %s verb applied to a value of the identity metadata: the string, or
\* NilText when the key is missing.
FmtS(v) == IF v.has THEN v.s ELSE NilText

\* isp: fmt.Sprintf("%s-%s", meta["country"], meta["asOrganization"]) with
\* every space replaced by "_".
IspLabel(meta) ==
  ReplaceAll(FmtS(meta.country) \o <<"-">> \o FmtS(meta.asOrganization), " ", "_")

\* The escape json.Marshal writes for one character of a string.
JSONEscape(c) ==
  IF c = "\"" THEN <<"\\","\"">>
  ELSE IF c = "\\" THEN <<"\\","\\">>
  ELSE IF c = "\n" THEN <<"\\","n">>
  ELSE IF c = "\r" THEN <<"\\","r">>
  ELSE IF c = "\t" THEN <<"\\","t">>
  ELSE IF c = "<" THEN <<"\\","u","0","0","3","c">>
  ELSE IF c = ">" THEN <<"\\","u","0","0","3","e">>
  ELSE IF c = "&" THEN <<"\\","u","0","0","2","6">>
  ELSE <<c>>

\* json.Marshal of a string: quoted, with its characters escaped.
JSONString(s) ==
  <<"\"">> \o Concat([k \in 1..Len(s) |-> JSONEscape(s[k])]) \o <<"\"">>

\* One member of a JSON object: "key":value
JSONMember(key, value) == JSONString(key) \o <<":">> \o value

\* The path of the vmess link.
VmessPath ==
  <<"/","v","m","e","s","s","-","a","r","g","o","?","e","d","=","2","0","4",
    "8">>

\* json.Marshal(vmess): the members in the order of their keys.
VmessJSON(c, argoDomain, isp) ==
  <<"{">>
  \o JSONMember(<<"a","d","d">>, JSONString(c.CFIP)) \o <<",">>
  \o JSONMember(<<"a","i","d">>, JSONString(<<"0">>)) \o <<",">>
  \o JSONMember(<<"a","l","p","n">>, JSONString(<<>>)) \o <<",">>
  \o JSONMember(<<"h","o","s","t">>, JSONString(argoDomain)) \o <<",">>
  \o JSONMember(<<"i","d">>, JSONString(c.UUID)) \o <<",">>
  \o JSONMember(<<"n","e","t">>, JSONString(<<"w","s">>)) \o <<",">>
  \o JSONMember(<<"p","a","t","h">>, JSONString(VmessPath)) \o <<",">>
  \o JSONMember(<<"p","o","r","t">>, Itoa(c.CFPort)) \o <<",">>
  \o JSONMember(<<"p","s">>, JSONString(c.Name \o <<"-">> \o isp)) \o <<",">>
  \o JSONMember(<<"s","c","y">>, JSONString(<<"n","o","n","e">>)) \o <<",">>
  \o JSONMember(<<"s","n","i">>, JSONString(argoDomain)) \o <<",">>
  \o JSONMember(<<"t","l","s">>, JSONString(<<"t","l","s">>)) \o <<",">>
  \o JSONMember(<<"t","y","p","e">>, JSONString(<<"n","o","n","e">>)) \o <<",">>
  \o JSONMember(<<"v">>, JSONString(<<"2">>))
  \o <<"}">>

\* subContent, up to the identity token of the vless link.
LinkVless1 ==
  <<"\n","v","l","e","s","s",":","/","/">>

\* The vless link, from the port to the SNI.
LinkVless2 ==
  <<"?","e","n","c","r","y","p","t","i","o","n","=","n","o","n","e","&","s",
    "e","c","u","r","i","t","y","=","t","l","s","&","s","n","i","=">>

\* A link, from the SNI to the host.
LinkTypeHost ==
  <<"&","t","y","p","e","=","w","s","&","h","o","s","t","=">>

\* The vless link, from the host to the label.
LinkVless3 ==
  <<"&","p","a","t","h","=","%","2","F","v","l","e","s","s","-","a","r","g",
    "o","%","3","F","e","d","%","3","D","2","0","4","8","#">>

\* A separator without the line breaks: with it in the place of LinkVmess
\* the property of C13 fails.
JoinedVmess ==
  <<"v","m","e","s","s",":","/","/">>

\* subContent, from the vless link to the vmess blob.
LinkVmess ==
  <<"\n","\n","v","m","e","s","s",":","/","/">>

\* subContent, from the vmess blob to the identity token of the trojan link.
LinkTrojan1 ==
  <<"\n","\n","t","r","o","j","a","n",":","/","/">>

\* The trojan link, from the port to the SNI.
LinkTrojan2 ==
  <<"?","s","e","c","u","r","i","t","y","=","t","l","s","&","s","n","i","=">>

\* The trojan link, from the host to the label.
LinkTrojan3 ==
  <<"&","p","a","t","h","=","%","2","F","t","r","o","j","a","n","-","a","r",
    "g","o","%","3","F","e","d","%","3","D","2","0","4","8","#">>

\* subContent of generateLinks: the three links, a blank line between them.
SubContent(c, argoDomain, isp) ==
  LinkVless1 \o c.UUID \o <<"@">> \o c.CFIP \o <<":">> \o Itoa(c.CFPort)
  \o LinkVless2 \o argoDomain \o LinkTypeHost \o argoDomain
  \o LinkVless3 \o c.Name \o <<"-">> \o isp
  \o LinkVmess \o EncodeToString(VmessJSON(c, argoDomain, isp))
  \o LinkTrojan1 \o c.UUID \o <<"@">> \o c.CFIP \o <<":">> \o Itoa(c.CFPort)
  \o LinkTrojan2 \o argoDomain \o LinkTypeHost \o argoDomain
  \o LinkTrojan3 \o c.Name \o <<"-">> \o isp
  \o <<"\n">>

\* encodedContent of generateLinks: what is written to sub.txt.
EncodedContent(c, argoDomain, isp) == EncodeToString(SubContent(c, argoDomain, isp))

(***************************************************************************)
(* The state of a run                                                      *)
(***************************************************************************)

\* The subscription-route requests served in a run.
MaxSub == 2

\* The writes of the tunnel client to its log in a run.
MaxLogWrites == 2

\* The read attempts of extractDomains: for i := 0; i < 30; i++
MaxAttempts == 30

\* The threads of control: 0 is main, the others serve one request each.
Main == 0
Threads == 0..MaxSub
Requests == 1..MaxSub

VARIABLES
  cfg,      \* the Config of the process (loadConfig)
  env,      \* what surrounds the run: [fetch, lines, requests]
  goarch,   \* runtime.GOARCH
  fs,       \* the working directory: file name -> [present, data, exec]
  th,       \* thread -> [pc, i, domain, isp, err, out, hist]
  files,    \* startServer: the result of getFilesForArchitecture
  idx,      \* startServer: the files fetched so far
  bot,      \* the tunnel subprocess: [running, mode, writes]
  cleanup   \* the cleanupTempFiles goroutine: [pc, launched, removed]

vars == <<cfg, env, goarch, fs, th, files, idx, bot, cleanup>>

\* The files of the working directory the program names.
FileNames ==
  {"web", "bot", "npm", "php", "sub.txt", "boot.log", "config.json",
   "config.yaml", "tunnel.yml", "tunnel.json", "list.txt"}

\* A path with no file.
NoFile == [present |-> FALSE, data |-> <<>>, exec |-> FALSE]

\* A file with its content and whether its mode has the execute bits.
File(data, exec) == [present |-> TRUE, data |-> data, exec |-> exec]

\* os.WriteFile(name, data, 0644) as one step: create or truncate, write.
WriteFile(dir, name, data) ==
  [dir EXCEPT ![name] = File(data, IF dir[name].present THEN dir[name].exec ELSE FALSE)]

\* os.Remove of each name of a set; a missing file is skipped.
RemoveAll(dir, names) == [f \in FileNames |-> IF f \in names THEN NoFile ELSE dir[f]]

\* An entry of a thread's history: what it did (op), to which file or
\* stage (name), with which text and list, and a count.
Ev(op, name, text, list, n) ==
  [op |-> op, name |-> name, text |-> text, list |-> list, n |-> n]

\* The thread with an entry added to its history.
Log(t, e) == [t EXCEPT !.hist = Append(@, e)]

\* The thread with entries added to its history.
LogAll(t, es) == [t EXCEPT !.hist = @ \o es]

\* The delete endpoint of the aggregator.
PostDeleteNodes ==
  <<"/","a","p","i","/","d","e","l","e","t","e","-","n","o","d","e","s">>

\* The add-subscriptions endpoint of the aggregator.
PostAddSubscriptions ==
  <<"/","a","p","i","/","a","d","d","-","s","u","b","s","c","r","i","p","t",
    "i","o","n","s">>

\* The add-nodes endpoint of the aggregator.
PostAddNodes ==
  <<"/","a","p","i","/","a","d","d","-","n","o","d","e","s">>

\* The keep-alive registration endpoint.
VisitURL ==
  <<"h","t","t","p","s",":","/","/","g","i","f","t","e","d","-","s","t","e",
    "e","l","-","c","h","e","e","k",".","g","l","i","t","c","h",".","m","e",
    "/","a","d","d","-","u","r","l">>

\* A decoded prior artifact: two node lines and a line that is no node.
StaleText ==
  <<"v","l","e","s","s",":","/","/","x","\n","n","o","t","e","\n"," ","t","u",
    "i","c",":","/","/","y"," ","\n">>

\* A decoded prior artifact without a node line.
NoNodeText ==
  <<"h","e","l","l","o","\n">>

\* A decoded prior artifact: a node line, a line with a scheme after other
\* text, and a node line of the fifth scheme.
MixedText ==
  <<"v","l","e","s","s",":","/","/","x","\n","s","e","e"," ","t","r","o","j","a","n",":","/","/","z","\n","h","y","s","t","e","r","i","a","2",":","/","/","h","\n">>

\* What sub.txt holds when the process starts: nothing, an artifact of two
\* nodes, an artifact of mixed lines, an artifact without nodes, or text
\* that is no base64.
PriorArtifacts ==
  { NoFile,
    File(EncodeToString(StaleText), FALSE),
    File(EncodeToString(MixedText), FALSE),
    File(EncodeToString(NoNodeText), FALSE),
    File(<<"!","!">>, FALSE) }

\* A line of the tunnel client's log without a URL.
LogNoise ==
  <<"I","N","F","\n">>

\* The line of the tunnel client's log with the assigned URL.
LogBanner ==
  <<"h","t","t","p","s",":","/","/","f","o","o",".","t","r","y","c","l","o",
    "u","d","f","l","a","r","e",".","c","o","m","/","\n">>

\* The lines the tunnel client may write.
LogLines == {LogNoise, LogBanner}

\* The body of a downloaded executable and what io.Copy leaves of it when
\* it fails part way.
Body == <<"E","L","F">>
PartialBody == <<"E">>

\* How a downloadFile call ends: http.Get fails, os.Create fails, io.Copy
\* fails, or the file is written.
FetchOutcomes == {"getErr", "createErr", "copyErr", "ok"}

\* The identity metadata the lookup returns when it succeeds.
Metas ==
  { [country |-> [has |-> TRUE, s |-> <<"U","S">>],
     asOrganization |-> [has |-> TRUE, s |-> <<"A"," ","B">>]],
    [country |-> [has |-> TRUE, s |-> <<"U","S">>],
     asOrganization |-> [has |-> FALSE, s |-> <<>>]] }

\* How the identity lookup of generateLinks ends: curl fails, its output is
\* no JSON, or it is a JSON object.
LookupResults ==
  {[status |-> "cmdErr", meta |-> m] : m \in {CHOOSE x \in Metas : TRUE}}
  \cup {[status |-> "parseErr", meta |-> m] : m \in {CHOOSE x \in Metas : TRUE}}
  \cup {[status |-> "ok", meta |-> m] : m \in Metas}

\* A Config of a named tunnel: a hostname and a token.
NamedConfig ==
  [DefaultConfig EXCEPT !.ArgoDomain = TunnelHost, !.ArgoAuth = Rep("A", TokenMinLen)]

\* What surrounds a run: the ways a download may end (fetch), the lines
\* the tunnel client may write to its log (lines) and the number of
\* requests the subscription route receives (requests).
Env(fetch, lines, requests) == [fetch |-> fetch, lines |-> lines, requests |-> requests]

\* The runs that are checked: [cfg, goarch, prior, left, env]; prior is the
\* sub.txt and left the other files an earlier process left behind.  Each
\* group of settings is varied in full, the other settings fixed:
\*  - the aggregator settings with what a prior run left in sub.txt or
\*    with the keep-alive registration, with a named tunnel, downloads
\*    that succeed and one request;
\*  - the monitoring settings and the architecture, with a named tunnel,
\*    downloads that end in every way and no request;
\*  - the tunnel settings (every credential with a hostname, a credential
\*    of each mode without one), with an aggregator to which nodes are
\*    published, downloads that succeed, a tunnel client that writes to
\*    its log and one request;
\*  - the files an earlier process left, with the push agent, a named
\*    tunnel, downloads that succeed and no request;
\*  - the requests: MaxSub of them, served at the same time, with a named
\*    tunnel, an aggregator to which nodes are published and downloads
\*    that succeed.
PublishInputs ==
  { [cfg |-> [NamedConfig EXCEPT !.UploadURL = u, !.ProjectURL = p, !.AutoAccess = af[1]],
     goarch |-> "amd64", prior |-> af[2], left |-> {},
     env |-> Env({"ok"}, {}, IF MaxSub > 0 THEN 1 ELSE 0)] :
    u \in {<<>>, AggregatorURL}, p \in {<<>>, PublicURL},
    af \in ({FALSE} \X PriorArtifacts) \cup {<<TRUE, NoFile>>} }

MonitorInputs ==
  { [cfg |-> [NamedConfig EXCEPT !.NezhaServer = ns, !.NezhaKey = nk, !.NezhaPort = np],
     goarch |-> g, prior |-> NoFile, left |-> {}, env |-> Env(FetchOutcomes, {}, 0)] :
    ns \in {<<>>, <<"n","z">>}, nk \in {<<>>, <<"k">>}, np \in {<<>>, <<"4","4","3">>},
    g \in GoArchs }

TunnelInputs ==
  { [cfg |-> [DefaultConfig EXCEPT !.UploadURL = AggregatorURL,
                                   !.ArgoDomain = da[1], !.ArgoAuth = da[2]],
     goarch |-> "amd64", prior |-> NoFile, left |-> {},
     env |-> Env({"ok"}, LogLines, IF MaxSub > 0 THEN 1 ELSE 0)] :
    da \in ({TunnelHost} \X Credentials)
            \cup ({<<>>} \X {<<>>, <<"a","b","c">>, Rep("A", TokenMinLen), SecretJSON}) }

\* The files an earlier process may have left that cleanupOldFiles does not
\* remove and this run does not write.
Leftovers == {"php", "list.txt"}

LeftoverInputs ==
  { [cfg |-> [NamedConfig EXCEPT !.NezhaServer = <<"n","z">>, !.NezhaKey = <<"k">>,
                                 !.NezhaPort = <<"4","4","3">>],
     goarch |-> "amd64", prior |-> NoFile, left |-> l, env |-> Env({"ok"}, {}, 0)] :
    l \in SUBSET Leftovers }

ConcurrentInputs ==
  { [cfg |-> [NamedConfig EXCEPT !.UploadURL = AggregatorURL],
     goarch |-> "amd64", prior |-> NoFile, left |-> {}, env |-> Env({"ok"}, {}, MaxSub)] }

Inputs ==
  PublishInputs \cup MonitorInputs \cup TunnelInputs \cup LeftoverInputs
  \cup ConcurrentInputs

\* A thread that has not started.
NewThread(pc) ==
  [pc |-> pc, i |-> 0, domain |-> <<>>, isp |-> <<>>, err |-> "", out |-> <<>>,
   hist |-> <<>>]

\* The state when main is entered: the Config is loaded and the working
\* directory holds at most what an earlier process left.
Init ==
  \E inp \in Inputs :
    /\ cfg = inp.cfg
    /\ env = inp.env
    /\ goarch = inp.goarch
    /\ fs = [f \in FileNames |-> IF f = "sub.txt" THEN inp.prior
                               ELSE IF f \in inp.left THEN File(Body, TRUE)
                               ELSE NoFile]
    /\ th = [t \in Threads |-> IF t = Main THEN NewThread("deleteNodes")
                               ELSE NewThread("idle")]
    /\ files = <<>>
    /\ idx = 0
    /\ bot = [running |-> FALSE, mode |-> "none", writes |-> 0]
    /\ cleanup = [pc |-> "none", launched |-> 0, removed |-> {}]

(***************************************************************************)
(* PublishClient                                                           *)
(***************************************************************************)

\* A deleteNodes that sends nothing: with it in the place of deleteNodes
\* the property of C6 fails.
deleteNothing(c, dir) == <<>>

\* The requests deleteNodes sends: none, or one delete request with the
\* nodes of the artifact on disk.
deleteNodes(c, dir) ==
  IF c.UploadURL = <<>> THEN <<>>
  ELSE IF ~dir["sub.txt"].present THEN <<>>
  ELSE LET decoded == DecodeString(dir["sub.txt"].data)
       IN IF ~decoded.ok THEN <<>>
          ELSE LET nodes == ExtractNodes(decoded.data)
               IN IF nodes = <<>> THEN <<>>
                  ELSE << Ev("post", "", c.UploadURL \o PostDeleteNodes, nodes, 0) >>

\* An uploadNodes that publishes the nodes as well when both URLs are set:
\* with it in the place of uploadNodes the property of C7 fails.
uploadBoth(c, dir) ==
  IF c.UploadURL = <<>> THEN <<>>
  ELSE (IF c.ProjectURL # <<>>
        THEN << Ev("post", "", c.UploadURL \o PostAddSubscriptions,
                   << c.ProjectURL \o <<"/">> \o c.SubPath >>, 0) >>
        ELSE <<>>)
       \o (IF dir["sub.txt"].present /\ DecodeString(dir["sub.txt"].data).ok
              /\ ExtractNodes(DecodeString(dir["sub.txt"].data).data) # <<>>
           THEN << Ev("post", "", c.UploadURL \o PostAddNodes,
                      ExtractNodes(DecodeString(dir["sub.txt"].data).data), 0) >>
           ELSE <<>>)

\* The requests uploadNodes sends: none, one add-subscriptions request with
\* the subscription URL, or one add-nodes request with the nodes of the
\* artifact on disk.
uploadNodes(c, dir) ==
  IF c.UploadURL = <<>> /\ c.ProjectURL = <<>> THEN <<>>
  ELSE IF c.UploadURL # <<>> /\ c.ProjectURL # <<>>
  THEN << Ev("post", "", c.UploadURL \o PostAddSubscriptions,
             << c.ProjectURL \o <<"/">> \o c.SubPath >>, 0) >>
  ELSE IF c.UploadURL # <<>>
  THEN IF ~dir["sub.txt"].present THEN <<>>
       ELSE LET decoded == DecodeString(dir["sub.txt"].data)
            IN IF ~decoded.ok THEN <<>>
               ELSE LET nodes == ExtractNodes(decoded.data)
                    IN IF nodes = <<>> THEN <<>>
                       ELSE << Ev("post", "", c.UploadURL \o PostAddNodes, nodes, 0) >>
  ELSE <<>>

\* The request addVisitTask sends: none, or the keep-alive registration.
addVisitTask(c) ==
  IF ~c.AutoAccess \/ c.ProjectURL = <<>> THEN <<>>
  ELSE << Ev("post", "", VisitURL, <<c.ProjectURL>>, 0) >>

(***************************************************************************)
(* main, up to startServices                                               *)
(***************************************************************************)

\* main: deleteNodes(cfg)
main_deleteNodes ==
  /\ th[Main].pc = "deleteNodes"
  /\ th' = [th EXCEPT ![Main] =
              [LogAll(@, deleteNodes(cfg, fs)) EXCEPT !.pc = "cleanupOldFiles"]]
  /\ UNCHANGED <<cfg, env, goarch, fs, files, idx, bot, cleanup>>

\* The paths cleanupOldFiles removes.
pathsToDelete == <<"web", "bot", "npm", "sub.txt", "boot.log">>

\* main: cleanupOldFiles(cfg.FilePath)
cleanupOldFiles ==
  /\ th[Main].pc = "cleanupOldFiles"
  /\ fs' = RemoveAll(fs, {pathsToDelete[k] : k \in 1..Len(pathsToDelete)})
  /\ th' = [th EXCEPT ![Main] =
              [LogAll(@, [k \in 1..Len(pathsToDelete) |->
                            Ev("remove", pathsToDelete[k], <<>>, <<>>, 0)])
               EXCEPT !.pc = "generateXRayConfig"]]
  /\ UNCHANGED <<cfg, env, goarch, files, idx, bot, cleanup>>

\* main: generateXRayConfig(cfg) writes config.json
generateXRayConfig ==
  /\ th[Main].pc = "generateXRayConfig"
  /\ fs' = WriteFile(fs, "config.json", XRayConfigDoc(cfg))
  /\ th' = [th EXCEPT ![Main] =
              [Log(@, Ev("render", "config.json", <<>>, <<>>, 0))
               EXCEPT !.pc = "generateArgoConfig"]]
  /\ UNCHANGED <<cfg, env, goarch, files, idx, bot, cleanup>>

\* startServices: generateArgoConfig(cfg) writes tunnel.json and, when the
\* secret parses and has a TunnelID, tunnel.yml.
generateArgoConfig ==
  /\ th[Main].pc = "generateArgoConfig"
  /\ LET secret == ParseTunnelID(cfg.ArgoAuth)
         json == Ev("render", "tunnel.json", <<>>, <<>>, 0)
         yml == Ev("render", "tunnel.yml", <<>>, <<>>, 0)
     IN IF cfg.ArgoAuth = <<>> \/ cfg.ArgoDomain = <<>>
        THEN /\ fs' = fs
             /\ th' = [th EXCEPT ![Main].pc = "startServer"]
        ELSE IF Contains(cfg.ArgoAuth, TunnelSecret)
        THEN IF secret.ok
             THEN /\ fs' = WriteFile(WriteFile(fs, "tunnel.json", cfg.ArgoAuth),
                                     "tunnel.yml", TunnelYaml(secret.id, cfg))
                  /\ th' = [th EXCEPT ![Main] =
                              [LogAll(@, <<json, yml>>) EXCEPT !.pc = "startServer"]]
             ELSE /\ fs' = WriteFile(fs, "tunnel.json", cfg.ArgoAuth)
                  /\ th' = [th EXCEPT ![Main] =
                              [Log(@, json) EXCEPT !.pc = "startServer"]]
        ELSE /\ fs' = fs
             /\ th' = [th EXCEPT ![Main].pc = "startServer"]
  /\ UNCHANGED <<cfg, env, goarch, files, idx, bot, cleanup>>

(***************************************************************************)
(* startServer: BinaryProvisioner and ProcessSupervisor                    *)
(***************************************************************************)

\* A startServer that starts the proxy engine before it fetches anything:
\* with it in the place of startServer_files the property of C5 fails.
startServer_eager ==
  /\ th[Main].pc = "startServer"
  /\ files' = getFilesForArchitecture(getSystemArchitecture(goarch), cfg)
  /\ idx' = 0
  /\ th' = [th EXCEPT ![Main] =
              [Log(@, Ev("start", "web", <<>>, <<>>, 0)) EXCEPT !.pc = "download"]]
  /\ UNCHANGED <<cfg, env, goarch, fs, bot, cleanup>>

\* startServer: arch := getSystemArchitecture(); files := getFilesForArchitecture(arch)
startServer_files ==
  /\ th[Main].pc = "startServer"
  /\ files' = getFilesForArchitecture(getSystemArchitecture(goarch), cfg)
  /\ idx' = 0
  /\ th' = [th EXCEPT ![Main].pc = "download"]
  /\ UNCHANGED <<cfg, env, goarch, fs, bot, cleanup>>

\* downloadFile(filePath, url) ending in outcome o: the directory after it.
\* Nothing is written when http.Get or os.Create fails; os.Create leaves an
\* empty file that io.Copy fills, in part when it fails.
downloadFile(dir, name, o) ==
  IF o = "getErr" \/ o = "createErr" THEN dir
  ELSE [dir EXCEPT ![name] =
          File(IF o = "ok" THEN Body ELSE PartialBody,
               IF dir[name].present THEN dir[name].exec ELSE FALSE)]

\* os.Chmod(filePath, 0755)
Chmod(dir, name) == [dir EXCEPT ![name].exec = TRUE]

\* A turn of the download loop that makes the file executable whatever
\* downloadFile returned: with it in the place of FetchOne the property of
\* C9 fails.
FetchAndChmod(dir, name, o) == Chmod(downloadFile(dir, name, o), name)

\* What one turn of the download loop of startServer does to the directory:
\* the file is made executable only when downloadFile returned no error.
FetchOne(dir, name, o) ==
  IF o = "ok" THEN Chmod(downloadFile(dir, name, o), name)
  ELSE downloadFile(dir, name, o)

\* What one turn of the download loop adds to the history: the fetch, then
\* its failure (n = 1 when the file was created) or the chmod.
FetchEvents(file, o) ==
  << Ev("fetch", file.fileName, file.fileUrl, <<>>, 0) >>
  \o (IF o = "ok" THEN << Ev("chmod", file.fileName, <<>>, <<>>, 0) >>
      ELSE << Ev("fetchErr", file.fileName, <<>>, <<>>,
                 IF o = "copyErr" THEN 1 ELSE 0) >>)

\* startServer: one turn of the loop over files; after the last file the
\* monitoring agent is next.
startServer_download ==
  /\ th[Main].pc = "download"
  /\ idx < Len(files)
  /\ \E o \in env.fetch :
       /\ fs' = FetchOne(fs, files[idx + 1].fileName, o)
       /\ th' = [th EXCEPT ![Main] =
                   [LogAll(@, FetchEvents(files[idx + 1], o))
                    EXCEPT !.pc = IF idx + 1 = Len(files) THEN "nezha" ELSE "download"]]
  /\ idx' = idx + 1
  /\ UNCHANGED <<cfg, env, goarch, files, bot, cleanup>>

\* The ports for which the push agent is started with --tls.
tlsPorts ==
  { <<"4","4","3">>, <<"8","4","4","3">>, <<"2","0","9","6">>,
    <<"2","0","8","7">>, <<"2","0","8","3">>, <<"2","0","5","3">> }

\* nezhaArgs of startServer
nezhaArgs(c) ==
  << <<"-","s">>, c.NezhaServer \o <<":">> \o c.NezhaPort, <<"-","p">>, c.NezhaKey >>
  \o (IF c.NezhaPort \in tlsPorts THEN << <<"-","-","t","l","s">> >> ELSE <<>>)

\* startServer: the monitoring agent.  In pull mode (no port) config.yaml
\* is written and php started; in push mode npm is started.
startServer_nezha ==
  /\ th[Main].pc = "nezha"
  /\ IF NezhaConfigured(cfg)
     THEN IF cfg.NezhaPort = <<>>
          THEN /\ fs' = WriteFile(fs, "config.yaml", ConfigYaml(cfg))
               /\ th' = [th EXCEPT ![Main] =
                           [LogAll(@, << Ev("render", "config.yaml", <<>>, <<>>, 0),
                                         Ev("start", "php", <<>>,
                                            << <<"-","c">>,
                                               PathOf(<<"c","o","n","f","i","g",".","y","a","m","l">>) >>, 0) >>)
                            EXCEPT !.pc = "web"]]
          ELSE /\ fs' = fs
               /\ th' = [th EXCEPT ![Main] =
                           [Log(@, Ev("start", "npm", <<>>, nezhaArgs(cfg), 0))
                            EXCEPT !.pc = "web"]]
     ELSE /\ fs' = fs
          /\ th' = [th EXCEPT ![Main].pc = "web"]
  /\ UNCHANGED <<cfg, env, goarch, files, idx, bot, cleanup>>

\* startServer: the proxy engine is started, whatever was fetched.
startServer_web ==
  /\ th[Main].pc = "web"
  /\ th' = [th EXCEPT ![Main] =
              [Log(@, Ev("start", "web", <<>>,
                         << <<"-","c">>, PathOf(<<"c","o","n","f","i","g",".","j","s","o","n">>) >>, 0))
               EXCEPT !.pc = "bot"]]
  /\ UNCHANGED <<cfg, env, goarch, fs, files, idx, bot, cleanup>>

\* A classification that tries the marker of a structured secret first:
\* with it in the place of TunnelMode the property of C4 fails.
MarkerFirst(auth) ==
  IF Contains(auth, TunnelSecret) THEN "config"
  ELSE IF MatchToken(auth) THEN "token"
  ELSE "quick"

\* The mode of the tunnel client the credential selects: the token pattern
\* is tried first, then the marker of a structured secret.
TunnelMode(auth) ==
  IF MatchToken(auth) THEN "token"
  ELSE IF Contains(auth, TunnelSecret) THEN "config"
  ELSE "quick"

\* The arguments of the tunnel client that differ between the modes.
botArgs(c) ==
  IF TunnelMode(c.ArgoAuth) = "token"
  THEN << <<"r","u","n">>, <<"-","-","t","o","k","e","n">>, c.ArgoAuth >>
  ELSE IF TunnelMode(c.ArgoAuth) = "config"
  THEN << <<"-","-","c","o","n","f","i","g">>, PathOf(<<"t","u","n","n","e","l",".","y","m","l">>), <<"r","u","n">> >>
  ELSE << <<"-","-","l","o","g","f","i","l","e">>, PathOf(<<"b","o","o","t",".","l","o","g">>),
          <<"-","-","u","r","l">>,
          <<"h","t","t","p",":","/","/","l","o","c","a","l","h","o","s","t",":">> \o Itoa(c.ArgoPort) >>

\* Whether cmd.Start() of an executable can succeed: the file is there and
\* executable.
CanStart(dir, name) == dir[name].present /\ dir[name].exec

\* startServer: the tunnel client is started when os.Stat finds bot; its
\* output goes to boot.log, created (or truncated) first.
startServer_bot ==
  /\ th[Main].pc = "bot"
  /\ IF fs["bot"].present
     THEN \E ok \in (IF CanStart(fs, "bot") THEN BOOLEAN ELSE {FALSE}) :
            /\ fs' = WriteFile(fs, "boot.log", <<>>)
            /\ bot' = [running |-> ok, mode |-> TunnelMode(cfg.ArgoAuth), writes |-> 0]
            /\ th' = [th EXCEPT ![Main] =
                        [Log(@, Ev("start", "bot", <<>>, botArgs(cfg), 0))
                         EXCEPT !.pc = "extractDomains"]]
     ELSE /\ fs' = fs
          /\ bot' = bot
          /\ th' = [th EXCEPT ![Main].pc = "extractDomains"]
  /\ UNCHANGED <<cfg, env, goarch, files, idx, cleanup>>

\* The tunnel client writes a line to its log.  After boot.log is removed
\* the client writes to the unlinked file, which no path names.
BotWrite ==
  /\ bot.running
  /\ bot.writes < MaxLogWrites
  /\ fs["boot.log"].present
  /\ \E line \in env.lines :
       fs' = [fs EXCEPT !["boot.log"].data = @ \o line]
  /\ bot' = [bot EXCEPT !.writes = @ + 1]
  /\ UNCHANGED <<cfg, env, goarch, th, files, idx, cleanup>>

(***************************************************************************)
(* DomainResolver                                                          *)
(***************************************************************************)

\* A caller that goes on to generateLinks whatever extractDomains returned:
\* with it in the place of OnExtractError the property of C3 fails.
GoOn(t) == "lookup"

\* A caller that stops the process when extractDomains fails: with it in
\* the place of OnExtractError the property of C21 fails.
ExitOnError(t) == "exit"

\* Where a thread goes on when extractDomains returns its error:
\* startServices returns it to main, which logs it and goes on to
\* addVisitTask; Sub returns it as the response.
OnExtractError(t) == IF t = Main THEN "addVisitTask" ELSE "done"

\* A generateLinks that goes on to write after a failed lookup: with it in
\* the place of OnLinksError the property of C14 fails.
WriteAnyway(t) == "open"

\* Where a thread goes on when generateLinks returns an error: as above.
OnLinksError(t) == IF t = Main THEN "addVisitTask" ELSE "done"

\* A resolver without the fast path: with it in the place of FastPath the
\* property of C1 fails.
NoFastPath(c) == FALSE

\* Whether extractDomains takes the fast path.
FastPath(c) == c.ArgoAuth # <<>> /\ c.ArgoDomain # <<>>

\* One read of boot.log by the polling loop: [found, domain]; a file that
\* cannot be read is a failed attempt.
ReadBootLog(dir) ==
  IF dir["boot.log"].present
  THEN FindStringSubmatch(dir["boot.log"].data)
  ELSE [found |-> FALSE, domain |-> <<>>]

\* extractDomains(cfg), one step of thread t: the fast path returns the
\* configured hostname; otherwise one turn of the loop reads boot.log and
\* returns the match or sleeps; after MaxAttempts turns it returns the
\* error.  th[t].i is the loop variable i: the reads that found no match;
\* it ends with the call.  The entry of a match has n = 1 when reads of the
\* call before it found none, the entry of the error has the reads made.
extractDomains(t) ==
  /\ th[t].pc = "extractDomains"
  /\ IF FastPath(cfg)
     THEN th' = [th EXCEPT ![t] =
                   [Log(@, Ev("resolve", "fast", cfg.ArgoDomain, <<>>, 0))
                    EXCEPT !.pc = "lookup", !.domain = cfg.ArgoDomain]]
     ELSE IF th[t].i < MaxAttempts
     THEN LET m == ReadBootLog(fs)
          IN IF m.found
             THEN th' = [th EXCEPT ![t] =
                           [Log(@, Ev("resolve", "slow", m.domain, <<>>,
                                      IF @.i > 0 THEN 1 ELSE 0))
                            EXCEPT !.pc = "lookup", !.domain = m.domain, !.i = 0]]
             ELSE th' = [th EXCEPT ![t].i = @ + 1]
     ELSE th' = [th EXCEPT ![t] =
                   [Log(@, Ev("timeout", "", <<>>, <<>>, @.i))
                    EXCEPT !.pc = OnExtractError(t), !.err = "extract", !.i = 0]]
  /\ UNCHANGED <<cfg, env, goarch, fs, files, idx, bot, cleanup>>

(***************************************************************************)
(* LinkGenerator                                                           *)
(***************************************************************************)

\* generateLinks: the identity lookup (curl and json.Unmarshal).  A failure
\* is returned; otherwise the label is built.
generateLinks_lookup(t) ==
  /\ th[t].pc = "lookup"
  /\ \E r \in LookupResults :
       IF r.status = "ok"
       THEN th' = [th EXCEPT ![t] =
                     [Log(@, Ev("lookup", "ok", <<>>, <<>>, 0))
                      EXCEPT !.pc = "open", !.isp = IspLabel(r.meta)]]
       ELSE th' = [th EXCEPT ![t] =
                     [Log(@, Ev("lookup", r.status, <<>>, <<>>, 0))
                      EXCEPT !.pc = OnLinksError(t), !.err = "links"]]
  /\ UNCHANGED <<cfg, env, goarch, fs, files, idx, bot, cleanup>>

\* generateLinks: os.WriteFile opens sub.txt, creating or truncating it.
generateLinks_open(t) ==
  /\ th[t].pc = "open"
  /\ fs' = WriteFile(fs, "sub.txt", <<>>)
  /\ th' = [th EXCEPT ![t] =
              [Log(@, Ev("open", "sub.txt", <<>>, <<>>, 0)) EXCEPT !.pc = "write"]]
  /\ UNCHANGED <<cfg, env, goarch, files, idx, bot, cleanup>>

\* A write of data at offset 0 of a file that holds old: what lies beyond
\* the written bytes stays.
WriteAt0(old, data) ==
  data \o (IF Len(old) > Len(data) THEN Slice(old, Len(data) + 1, Len(old)) ELSE <<>>)

\* generateLinks: os.WriteFile writes encodedContent through the file it
\* opened.
generateLinks_write(t) ==
  /\ th[t].pc = "write"
  /\ LET encodedContent == EncodedContent(cfg, th[t].domain, th[t].isp)
     IN /\ fs' = [fs EXCEPT !["sub.txt"] =
                    File(WriteAt0(IF @.present THEN @.data ELSE <<>>, encodedContent),
                         @.exec)]
        /\ th' = [th EXCEPT ![t] =
                    [Log(@, Ev("write", "sub.txt", <<>>, <<>>, 0))
                     EXCEPT !.pc = "uploadNodes"]]
  /\ UNCHANGED <<cfg, env, goarch, files, idx, bot, cleanup>>

\* generateLinks: uploadNodes(cfg), then it returns nil: startServices goes
\* on to launch the cleanup, Sub to read the artifact.
generateLinks_upload(t) ==
  /\ th[t].pc = "uploadNodes"
  /\ th' = [th EXCEPT ![t] =
              [LogAll(@, uploadNodes(cfg, fs))
               EXCEPT !.pc = IF t = Main THEN "goCleanup" ELSE "read"]]
  /\ UNCHANGED <<cfg, env, goarch, fs, files, idx, bot, cleanup>>

(***************************************************************************)
(* CleanupScheduler, the end of main, and the subscription route           *)
(***************************************************************************)

\* A startServices that calls cleanupTempFiles instead of launching it:
\* main goes on when the removals are done.  With it in the place of
\* startServices_go the property of C17 fails.
startServices_call ==
  /\ th[Main].pc = "goCleanup"
  /\ fs' = RemoveAll(fs, {"boot.log", "config.json", "list.txt", "npm", "web", "bot", "php"})
  /\ cleanup' = [cleanup EXCEPT !.pc = "done", !.launched = @ + 1]
  /\ th' = [th EXCEPT ![Main] =
              [Log(@, Ev("go", "cleanupTempFiles", <<>>, <<>>, 0))
               EXCEPT !.pc = "addVisitTask"]]
  /\ UNCHANGED <<cfg, env, goarch, files, idx, bot>>

\* startServices: go cleanupTempFiles(cfg); return nil
startServices_go ==
  /\ th[Main].pc = "goCleanup"
  /\ cleanup' = [cleanup EXCEPT !.pc = "sleeping", !.launched = @ + 1]
  /\ th' = [th EXCEPT ![Main] =
              [Log(@, Ev("go", "cleanupTempFiles", <<>>, <<>>, 0))
               EXCEPT !.pc = "addVisitTask"]]
  /\ UNCHANGED <<cfg, env, goarch, fs, files, idx, bot>>

\* A list of paths that holds the subscription artifact as well: with it
\* in the place of filesToDelete the property of C11 fails.
filesAndArtifact ==
  {"boot.log", "config.json", "list.txt", "npm", "web", "bot", "php", "sub.txt"}

\* The paths cleanupTempFiles removes.
filesToDelete == {"boot.log", "config.json", "list.txt", "npm", "web", "bot", "php"}

\* cleanupTempFiles(cfg), after its sleep: the removals; removed keeps the
\* paths at which os.Remove found a file.
cleanupTempFiles ==
  /\ cleanup.pc = "sleeping"
  /\ fs' = RemoveAll(fs, filesToDelete)
  /\ cleanup' = [cleanup EXCEPT !.pc = "done",
                                 !.removed = {f \in filesToDelete : fs[f].present}]
  /\ UNCHANGED <<cfg, env, goarch, th, files, idx, bot>>

\* main: addVisitTask(cfg), then the HTTP server is started.
main_addVisitTask ==
  /\ th[Main].pc = "addVisitTask"
  /\ th' = [th EXCEPT ![Main] =
              [LogAll(@, addVisitTask(cfg) \o << Ev("serve", "", <<>>, <<>>, 0) >>)
               EXCEPT !.pc = "serve"]]
  /\ UNCHANGED <<cfg, env, goarch, fs, files, idx, bot, cleanup>>

\* Service.Sub: a request arrives once the server listens; requests are
\* numbered in the order of their arrival, env.requests of them arrive.
Sub_begin(t) ==
  /\ t \in Requests
  /\ th[Main].pc = "serve"
  /\ th[t].pc = "idle"
  /\ \A u \in Requests : u < t => th[u].pc # "idle"
  /\ t <= env.requests
  /\ th' = [th EXCEPT ![t].pc = "extractDomains"]
  /\ UNCHANGED <<cfg, env, goarch, fs, files, idx, bot, cleanup>>

\* Service.Sub: os.ReadFile(subPath) and the response.
Sub_read(t) ==
  /\ t \in Requests
  /\ th[t].pc = "read"
  /\ IF fs["sub.txt"].present
     THEN th' = [th EXCEPT ![t] =
                   [Log(@, Ev("respond", "sub.txt", <<>>, <<>>, 0))
                    EXCEPT !.pc = "done", !.out = fs["sub.txt"].data]]
     ELSE th' = [th EXCEPT ![t].pc = "done", ![t].err = "read"]
  /\ UNCHANGED <<cfg, env, goarch, fs, files, idx, bot, cleanup>>

(***************************************************************************)
(* The specification                                                       *)
(***************************************************************************)

Next ==
  \/ main_deleteNodes
  \/ cleanupOldFiles
  \/ generateXRayConfig
  \/ generateArgoConfig
  \/ startServer_files
  \/ startServer_download
  \/ startServer_nezha
  \/ startServer_web
  \/ startServer_bot
  \/ BotWrite
  \/ \E t \in Threads : extractDomains(t)
  \/ \E t \in Threads : generateLinks_lookup(t)
  \/ \E t \in Threads : generateLinks_open(t)
  \/ \E t \in Threads : generateLinks_write(t)
  \/ \E t \in Threads : generateLinks_upload(t)
  \/ startServices_go
  \/ cleanupTempFiles
  \/ main_addVisitTask
  \/ \E t \in Requests : Sub_begin(t)
  \/ \E t \in Requests : Sub_read(t)

Spec == Init /\ [][Next]_vars

\* A step of the goroutine of main, but for the four steps below.
MainCall ==
  \/ cleanupOldFiles
  \/ generateXRayConfig
  \/ generateArgoConfig
  \/ startServer_files
  \/ startServer_download
  \/ startServer_nezha
  \/ startServer_web
  \/ startServer_bot
  \/ generateLinks_lookup(Main)
  \/ generateLinks_open(Main)
  \/ startServices_go
  \/ main_addVisitTask

\* The steps of main that decode, scan or encode a text: deleteNodes, a
\* turn of extractDomains, the write of sub.txt and uploadNodes.
MainTextStep ==
  \/ main_deleteNodes
  \/ extractDomains(Main)
  \/ generateLinks_write(Main)
  \/ generateLinks_upload(Main)

\* Main is at one of these four steps; each of them is enabled at its
\* program point and nowhere else.
AtTextStep == th[Main].pc \in {"deleteNodes", "extractDomains", "write", "uploadNodes"}

\* Weak fairness of MainTextStep, WF_vars(MainTextStep), with its enabling
\* condition written as the program point.
TextProgress == []<>(~AtTextStep) \/ []<><<MainTextStep>>_vars

\* The runs in which main is scheduled and every call it makes returns: as
\* long as main has a next step it takes it.  Nothing is assumed about the
\* requests, the tunnel client or the cleanup task.
FairSpec == Spec /\ WF_vars(MainCall) /\ TextProgress

(***************************************************************************)
(* What the histories say                                                  *)
(***************************************************************************)

\* The positions of thread t's history with an entry of operation op.
At(t, op) == {k \in 1..Len(th[t].hist) : th[t].hist[k].op = op}

\* The positions of thread t's history with an entry of op on name.
AtName(t, op, name) == {k \in At(t, op) : th[t].hist[k].name = name}

\* The program points of a thread after extractDomains returned a hostname.
Resolved == {"lookup", "open", "write", "uploadNodes", "goCleanup", "read"}

\* Both tunnel settings are non-empty.
BothTunnelSettings == cfg.ArgoDomain # <<>> /\ cfg.ArgoAuth # <<>>

(***************************************************************************)
(* C1                                                                      *)
(***************************************************************************)

\* C1: when both the tunnel hostname and the tunnel credential are
\* non-empty, every call of extractDomains returns the configured hostname
\* and makes no turn of the polling loop: no thread ever counts a read of
\* boot.log, no call returns a hostname read from the log and none times
\* out, whatever boot.log holds and whether it exists.
C1_FastPath ==
  BothTunnelSettings =>
    \A t \in Threads :
      /\ th[t].i = 0
      /\ th[t].err # "extract"
      /\ At(t, "timeout") = {}
      /\ \A k \in At(t, "resolve") :
           th[t].hist[k].name = "fast" /\ th[t].hist[k].text = cfg.ArgoDomain
      /\ th[t].pc \in Resolved => th[t].domain = cfg.ArgoDomain /\ At(t, "resolve") # {}

\* C1 happens: a request got the configured hostname while boot.log held
\* the URL of another hostname.
C1_Witness ==
  /\ BothTunnelSettings
  /\ fs["boot.log"].present
  /\ Contains(fs["boot.log"].data, TryCloudflare)
  /\ \E t \in Requests :
       th[t].pc = "lookup" /\ th[t].domain = cfg.ArgoDomain /\ th[t].domain = TunnelHost

(***************************************************************************)
(* C2                                                                      *)
(***************************************************************************)

\* boot.log exists and holds a URL with the provider suffix: a scheme,
\* then characters other than "/", then trycloudflare.com.
LogHasProviderURL ==
  /\ fs["boot.log"].present
  /\ LET s == fs["boot.log"].data
     IN \E p \in 1..Len(s) : \E n \in {7, 8} :
          /\ StartsAt(s, p, IF n = 7 THEN <<"h","t","t","p",":","/","/">>
                            ELSE <<"h","t","t","p","s",":","/","/">>)
          /\ \E q \in (p + n)..Len(s) :
               /\ StartsAt(s, q, TryCloudflare)
               /\ \A k \in (p + n)..(q - 1) : s[k] # "/"

\* d is a hostname of a URL with the provider suffix that boot.log holds.
IsProviderHost(d) ==
  /\ Len(d) >= Len(TryCloudflare)
  /\ Slice(d, Len(d) - Len(TryCloudflare) + 1, Len(d)) = TryCloudflare
  /\ \A k \in 1..Len(d) : d[k] # "/"
  /\ \/ Contains(fs["boot.log"].data, <<"h","t","t","p",":","/","/">> \o d)
     \/ Contains(fs["boot.log"].data, <<"h","t","t","p","s",":","/","/">> \o d)

\* What a step of thread t in the polling loop must be.
C2_Step(t) ==
  IF th[t].i < 30
  THEN IF LogHasProviderURL
       THEN /\ th'[t].pc = "lookup"
            /\ th'[t].err = ""
            /\ IsProviderHost(th'[t].domain)
       ELSE /\ th'[t].pc = "extractDomains"
            /\ th'[t].err = ""
            /\ th'[t].i = th[t].i + 1
  ELSE /\ th[t].i = 30
       /\ th'[t].pc = (IF t = Main THEN "addVisitTask" ELSE "done")
       /\ th'[t].err = "extract"
       /\ th'[t].hist = Append(th[t].hist, Ev("timeout", "", <<>>, <<>>, 30))

\* C2: without the fast path a call of extractDomains makes at most 30
\* reads of boot.log.  Each turn of the loop either returns the hostname of
\* a provider URL that boot.log holds at that moment, or, when the file is
\* missing or holds no such URL, counts one more failed read and goes on
\* without an error; after 30 failed reads, and only then, the call fails
\* with the timeout.  The counter grows with every turn that does not
\* return, so the loop ends.
C2_SlowPath ==
  /\ [](\A t \in Threads :
          /\ th[t].i <= 30
          /\ \A k \in At(t, "timeout") : th[t].hist[k].n = 30)
  /\ [][\A t \in Threads :
          (~BothTunnelSettings /\ th[t].pc = "extractDomains" /\ th'[t] # th[t])
            => C2_Step(t)]_vars

\* C2 happens: main made failed reads before the URL was in the log and
\* then returned its hostname; a request, made after boot.log was removed,
\* failed after 30 reads of the missing file.
C2_Witness ==
  /\ \E k \in AtName(Main, "resolve", "slow") :
       /\ th[Main].hist[k].n = 1
       /\ th[Main].hist[k].text =
            <<"f","o","o",".","t","r","y","c","l","o","u","d","f","l","a","r","e",".","c","o","m">>
  /\ ~fs["boot.log"].present
  /\ \E t \in Requests : \E k \in At(t, "timeout") : th[t].hist[k].n = 30

(***************************************************************************)
(* C3                                                                      *)
(***************************************************************************)

\* C3: when extractDomains fails in an invocation (startServices in main,
\* the subscription route in a request), the invocation returns the error
\* and does nothing else: main goes on to addVisitTask, a request ends
\* with the error and no body.  The thread never looks up the identity,
\* never opens or writes the artifact, never launches the cleanup and
\* sends no request to the aggregator but, in main, the deletion that
\* preceded startServices and the keep-alive registration that follows it.
C3_TimeoutAborts ==
  \A t \in Threads : \A k \in At(t, "timeout") :
    /\ th[t].err = "extract"
    /\ th[t].pc \in (IF t = Main THEN {"addVisitTask", "serve"} ELSE {"done"})
    /\ \A j \in 1..Len(th[t].hist) :
         LET e == th[t].hist[j]
         IN /\ e.op \notin {"lookup", "open", "write", "go", "respond"}
            /\ e.op = "post" =>
                 /\ t = Main
                 /\ e.text = (IF j < k THEN cfg.UploadURL \o PostDeleteNodes ELSE VisitURL)
    /\ t = Main => cleanup.launched = 0
    /\ t \in Requests => th[t].out = <<>>

\* C3 happens: startServices failed with the timeout in main and the
\* subscription route failed with it in a request.
C3_Witness ==
  /\ cfg.UploadURL # <<>>
  /\ At(Main, "timeout") # {}
  /\ th[Main].pc = "serve"
  /\ \E t \in Requests : At(t, "timeout") # {} /\ th[t].pc = "done"

(***************************************************************************)
(* C4                                                                      *)
(***************************************************************************)

\* The credential of the run is 120 to 250 characters of A-Z, a-z, 0-9, =.
TokenShaped ==
  /\ Len(cfg.ArgoAuth) \in 120..250
  /\ \A k \in 1..Len(cfg.ArgoAuth) :
       \/ Ord(cfg.ArgoAuth[k]) \in 48..57
       \/ Ord(cfg.ArgoAuth[k]) \in 65..90
       \/ Ord(cfg.ArgoAuth[k]) \in 97..122
       \/ cfg.ArgoAuth[k] = "="

\* The credential of the run contains the marker TunnelSecret.
HasMarker == Contains(cfg.ArgoAuth, TunnelSecret)

\* The modes in which the tunnel client was started, read off the
\* arguments of its start.
StartedModes ==
  { IF Len(e.list) = 3 /\ e.list[2] = <<"-","-","t","o","k","e","n">> /\ e.list[3] = cfg.ArgoAuth
    THEN "token"
    ELSE IF e.list[1] = <<"-","-","c","o","n","f","i","g">> THEN "config"
    ELSE IF e.list[1] = <<"-","-","l","o","g","f","i","l","e">> THEN "quick"
    ELSE "other" :
    e \in {th[Main].hist[k] : k \in AtName(Main, "start", "bot")} }

\* C4 as the spec has it: every token-shaped credential starts the tunnel
\* client in token mode, every credential with the marker in config-file
\* mode and every other in quick-tunnel mode.
C4_AsStated ==
  \A m \in StartedModes :
    /\ TokenShaped => m = "token"
    /\ HasMarker => m = "config"
    /\ (~TokenShaped /\ ~HasMarker) => m = "quick"

\* C4, corrected: every credential starts the tunnel client in exactly one
\* of the three modes; every token-shaped credential in token mode, with
\* or without the marker; every credential with the marker that is not
\* token-shaped in config-file mode; every other in quick-tunnel mode.
C4_Classification ==
  /\ bot.mode \in {"none", "token", "config", "quick"}
  /\ \A m \in StartedModes :
       /\ m = bot.mode
       /\ TokenShaped => m = "token"
       /\ (~TokenShaped /\ HasMarker) => m = "config"
       /\ (~TokenShaped /\ ~HasMarker) => m = "quick"

\* C4 happens: a token-shaped credential that contains the marker started
\* the tunnel client in token mode.
C4_Witness ==
  /\ TokenShaped
  /\ HasMarker
  /\ StartedModes = {"token"}

(***************************************************************************)
(* C5                                                                      *)
(***************************************************************************)

\* An entry is a request that publishes to the aggregator.
IsPublication(e) ==
  /\ e.op = "post"
  /\ e.text \in {cfg.UploadURL \o PostAddNodes, cfg.UploadURL \o PostAddSubscriptions}

\* The stage of the pipeline an entry belongs to, 0 for an entry of no
\* stage; yamlStage is the stage of the rendering of config.yaml.
StageOf(e, yamlStage) ==
  IF e.op = "render" THEN (IF e.name = "config.yaml" THEN yamlStage ELSE 1)
  ELSE IF e.op \in {"fetch", "fetchErr", "chmod"} THEN 3
  ELSE IF e.op = "start" THEN 5
  ELSE IF e.op \in {"resolve", "timeout"} THEN 6
  ELSE IF e.op \in {"lookup", "open"} THEN 7
  ELSE IF e.op = "write" THEN 8
  ELSE IF IsPublication(e) THEN 9
  ELSE 0

\* The stages of main never go back.
InStageOrder(yamlStage) ==
  \A j, k \in 1..Len(th[Main].hist) :
    LET a == StageOf(th[Main].hist[j], yamlStage)
        b == StageOf(th[Main].hist[k], yamlStage)
    IN (j < k /\ a > 0 /\ b > 0) => a <= b

\* Main is in a stage only when the stages before it are over: all files
\* were fetched before the first start, and the start of the proxy engine
\* was attempted before the first read of the resolver.
StagesComplete ==
  /\ At(Main, "start") # {} => Cardinality(At(Main, "fetch")) = Len(files) /\ idx = Len(files)
  /\ (th[Main].pc = "extractDomains" \/ At(Main, "resolve") \cup At(Main, "timeout") # {})
       => AtName(Main, "start", "web") # {}
  /\ th[Main].i > 0 => th[Main].pc = "extractDomains"
  /\ \A k \in 1..Len(th[Main].hist) :
       IsPublication(th[Main].hist[k]) =>
         \E j \in At(Main, "write") : j < k /\ fs["sub.txt"].present

\* C5 as the spec has it: every configuration document, config.yaml
\* included, is rendered before any fetch; then the fetches, the starts,
\* the resolution, the link generation with the write, the publication.
C5_AsStated == InStageOrder(1) /\ StagesComplete

\* C5, corrected: in main the stages follow each other in this order: the
\* proxy configuration and the tunnel documents are rendered; every file
\* is fetched; then the monitoring-agent document config.yaml is rendered
\* (pull mode only); the subprocesses are started; the domain is resolved;
\* links are generated and the artifact is written; it is published.
C5_StageOrder == InStageOrder(4) /\ StagesComplete

\* C5 happens: in pull mode config.yaml was rendered after the fetches and
\* before the first start, and main went on to write the artifact.
C5_Witness ==
  /\ \E r \in AtName(Main, "render", "config.yaml") :
       /\ \A f \in At(Main, "fetch") : f < r
       /\ At(Main, "fetch") # {}
       /\ \A s \in At(Main, "start") : r < s
  /\ AtName(Main, "start", "php") # {}
  /\ At(Main, "write") # {}

(***************************************************************************)
(* C6                                                                      *)
(***************************************************************************)

\* The positions of thread t's history with a delete request.
Deletions(t) ==
  {k \in At(t, "post") : th[t].hist[k].text = cfg.UploadURL \o PostDeleteNodes}

\* The positions of thread t's history with a publication.
Publications(t) == {k \in At(t, "post") : IsPublication(th[t].hist[k])}

\* The nodes of the artifact a prior run left: its node lines, trimmed.
StaleNodes == << <<"v","l","e","s","s",":","/","/","x">>, <<"t","u","i","c",":","/","/","y">> >>

\* What deleteNodes takes for the nodes of the artifact of mixed lines.
MixedNodes ==
  << <<"v","l","e","s","s",":","/","/","x">>,
     <<"s","e","e"," ","t","r","o","j","a","n",":","/","/","z">>,
     <<"h","y","s","t","e","r","i","a","2",":","/","/","h">> >>

\* C6: the delete request is sent by main only, at most once, as the first
\* thing main does: before the prior artifact is removed, before any
\* artifact is written and before any publication; no request of the
\* subscription route sends it.  With an aggregator URL and a prior
\* artifact that holds nodes it is sent, and it carries those nodes.
C6_DeleteOnce ==
  /\ \A t \in Requests : Deletions(t) = {}
  /\ Deletions(Main) \subseteq {1}
  /\ \A k \in Deletions(Main) :
       /\ cfg.UploadURL # <<>>
       /\ th[Main].hist[k].list \in {StaleNodes, MixedNodes}
       /\ th[Main].pc = "cleanupOldFiles" => fs["sub.txt"].present
       /\ \A j \in At(Main, "remove") \cup At(Main, "open") \cup At(Main, "write")
                   \cup Publications(Main) : k < j
  /\ (th[Main].pc = "cleanupOldFiles" /\ cfg.UploadURL # <<>>
      /\ fs["sub.txt"] = File(EncodeToString(StaleText), FALSE))
       => Deletions(Main) = {1}

\* C6 happens: main sent the deletion of the prior nodes, removed the
\* prior artifact, wrote and published the new one, and a request was
\* served afterwards without another deletion.
C6_Witness ==
  /\ Deletions(Main) = {1}
  /\ AtName(Main, "remove", "sub.txt") # {}
  /\ At(Main, "write") # {}
  /\ Publications(Main) # {}
  /\ \E t \in Requests : th[t].pc = "done" /\ Publications(t) # {} /\ Deletions(t) = {}

(***************************************************************************)
(* C7                                                                      *)
(***************************************************************************)

\* Thread t is past its call of uploadNodes.
Uploaded(t) ==
  /\ At(t, "write") # {}
  /\ th[t].pc \in {"goCleanup", "addVisitTask", "serve", "read", "done"}

\* C7: a call of uploadNodes sends at most one request.  With both URLs it
\* sends one add-subscriptions request with the one subscription URL; with
\* the aggregator URL alone it sends nothing but an add-nodes request with
\* the nodes of the artifact (in main, which writes alone, it sends it);
\* without the aggregator URL it sends nothing.
C7_PublishModes ==
  \A t \in Threads :
    /\ Cardinality(Publications(t)) <= 1
    /\ \A k \in Publications(t) :
         LET e == th[t].hist[k]
         IN /\ cfg.UploadURL # <<>>
            /\ \E w \in At(t, "write") : w < k
            /\ IF cfg.ProjectURL # <<>>
               THEN /\ e.text = cfg.UploadURL \o PostAddSubscriptions
                    /\ e.list = << cfg.ProjectURL \o <<"/","s","u","b">> >>
               ELSE /\ e.text = cfg.UploadURL \o PostAddNodes
                    /\ Len(e.list) > 0
                    /\ \A n \in 1..Len(e.list) : MatchNode(e.list[n])
    /\ Uploaded(t) =>
         /\ (cfg.UploadURL # <<>> /\ cfg.ProjectURL # <<>>) => Publications(t) # {}
         /\ (cfg.UploadURL # <<>> /\ t = Main) => Publications(t) # {}
         /\ cfg.UploadURL = <<>> => Publications(t) = {}

\* C7 happens: with both URLs set, main and a request each sent the one
\* add-subscriptions request and no add-nodes request.
C7_Witness ==
  /\ cfg.UploadURL # <<>>
  /\ cfg.ProjectURL # <<>>
  /\ Uploaded(Main)
  /\ \E t \in Requests :
       /\ Uploaded(t)
       /\ \A u \in {Main, t} :
            /\ Cardinality(Publications(u)) = 1
            /\ \A k \in Publications(u) :
                 th[u].hist[k].text = cfg.UploadURL \o PostAddSubscriptions

(***************************************************************************)
(* C8                                                                      *)
(***************************************************************************)

\* The names of the files startServer provisions.
Provisioned == {files[k].fileName : k \in 1..Len(files)}

\* The monitoring agent is configured: a server and a key.
Monitored == cfg.NezhaServer # <<>> /\ cfg.NezhaKey # <<>>

\* C8: once startServer has its file list, on either architecture, the
\* list holds web and bot, and with them npm alone when monitoring is
\* configured with a port, php alone when it is configured without a port,
\* and nothing else when it is not configured; no name is listed twice.
C8_FileSet ==
  th[Main].pc \notin {"deleteNodes", "cleanupOldFiles", "generateXRayConfig",
                      "generateArgoConfig", "startServer"} =>
    /\ goarch \in {"arm64", "amd64"}
    /\ Cardinality(Provisioned) = Len(files)
    /\ Provisioned =
         {"web", "bot"} \cup (IF ~Monitored THEN {}
                              ELSE IF cfg.NezhaPort # <<>> THEN {"npm"} ELSE {"php"})

\* C8 happens: on arm, the pull agent was provisioned with web and bot.
C8_Witness ==
  /\ goarch = "arm64"
  /\ Monitored
  /\ cfg.NezhaPort = <<>>
  /\ Provisioned = {"php", "web", "bot"}
  /\ AtName(Main, "fetch", "php") # {}

(***************************************************************************)
(* C9                                                                      *)
(***************************************************************************)

\* The names of the files fetched by main, in the order of the fetches.
FetchedNames ==
  LET at == At(Main, "fetch")
      nth(n) == CHOOSE k \in at : Cardinality({j \in at : j < k}) = n - 1
  IN [n \in 1..Cardinality(at) |-> th[Main].hist[nth(n)].name]

\* C9: the files are fetched in the order of the list, one fetch each,
\* whatever the earlier fetches returned; each fetch is followed by the
\* chmod of the file when it succeeded and by nothing but the report of
\* the error when it failed; while files are left the loop goes on, and
\* after the last one main is in the supervision stage with every file
\* fetched; a file whose fetch failed is not executable.
C9_BestEffort ==
  /\ FetchedNames = [n \in 1..idx |-> files[n].fileName]
  /\ idx <= Len(files)
  /\ th[Main].pc = "download" => idx < Len(files)
  /\ th[Main].pc \in {"nezha", "web", "bot"} => idx = Len(files) /\ idx >= 2
  /\ \A k \in At(Main, "fetch") :
       /\ k < Len(th[Main].hist)
       /\ th[Main].hist[k + 1].op \in {"chmod", "fetchErr"}
       /\ th[Main].hist[k + 1].name = th[Main].hist[k].name
  /\ \A k \in At(Main, "chmod") \cup At(Main, "fetchErr") :
       k > 1 /\ th[Main].hist[k - 1].op = "fetch"
  /\ \A k \in At(Main, "fetchErr") : ~fs[th[Main].hist[k].name].exec
  /\ \A f \in Provisioned :
       fs[f].exec => fs[f].present /\ fs[f].data = Body /\ AtName(Main, "chmod", f) # {}

\* C9 happens: the fetch of the first file failed after the file was
\* created, the next file was fetched and made executable, and main went
\* on to start the proxy engine.
C9_Witness ==
  /\ Len(files) = 3
  /\ \E k \in AtName(Main, "fetchErr", files[1].fileName) : th[Main].hist[k].n = 1
  /\ AtName(Main, "chmod", files[2].fileName) # {}
  /\ AtName(Main, "fetchErr", files[3].fileName) # {}
  /\ fs[files[1].fileName].present
  /\ AtName(Main, "start", "web") # {}

(***************************************************************************)
(* C10                                                                     *)
(***************************************************************************)

\* C10 as the spec has it: in a run in which the fetch of bot failed the
\* start of the tunnel client is never attempted, and once main is past
\* the supervision stage the start of the proxy engine was attempted.
C10_AsStated ==
  /\ AtName(Main, "fetchErr", "bot") # {} => AtName(Main, "start", "bot") = {}
  /\ th[Main].pc \notin {"deleteNodes", "cleanupOldFiles", "generateXRayConfig",
                         "generateArgoConfig", "startServer", "download", "nezha", "web"}
       => AtName(Main, "start", "web") # {}

\* What the code does: the start of the tunnel client is attempted exactly
\* when a file named bot exists after the fetches, so also after a fetch
\* of bot that failed once the file was created; it is not attempted when
\* the fetch failed before that.
C10_StartIfFileExists ==
  /\ \A k \in AtName(Main, "start", "bot") :
       \/ AtName(Main, "chmod", "bot") # {}
       \/ \E j \in AtName(Main, "fetchErr", "bot") : j < k /\ th[Main].hist[j].n = 1
  /\ (\E j \in AtName(Main, "fetchErr", "bot") : th[Main].hist[j].n = 0)
       => AtName(Main, "start", "bot") = {}
  /\ th[Main].pc \notin {"deleteNodes", "cleanupOldFiles", "generateXRayConfig",
                         "generateArgoConfig", "startServer", "download", "nezha", "web"}
       => AtName(Main, "start", "web") # {}

\* C10 fails: the fetch of bot failed while the file was copied, and the
\* start of the tunnel client was attempted on the partial file.
C10_Witness ==
  /\ \E j \in AtName(Main, "fetchErr", "bot") : th[Main].hist[j].n = 1
  /\ AtName(Main, "start", "bot") # {}
  /\ ~bot.running

(***************************************************************************)
(* C11                                                                     *)
(***************************************************************************)

\* The transient paths: the boot log, the proxy configuration, the list
\* file and the four executables.
TransientPaths == {"boot.log", "config.json", "list.txt", "web", "bot", "npm", "php"}

\* C11 as the spec has it: the fixed transient paths are six, so the
\* cleanup never finds and removes more than six files.
C11_AsStated == Cardinality(cleanup.removed) <= 6

\* C11, corrected: the step of the cleanup after its delay removes every
\* file at the seven transient paths, whichever of them exist, and leaves
\* every other file of the working directory as it was, the subscription
\* artifact and the rendered config.yaml, tunnel.yml and tunnel.json among
\* them; what it removed is what existed at those paths.
C11_SevenPaths ==
  /\ [](/\ cleanup.removed \subseteq TransientPaths
        /\ cleanup.pc = "done" => \A f \in TransientPaths \ {"boot.log"} : ~fs[f].present)
  /\ [][cleanup.pc = "sleeping" /\ cleanup'.pc = "done" =>
          /\ \A f \in TransientPaths : ~fs'[f].present
          /\ \A f \in FileNames \ TransientPaths : fs'[f] = fs[f]
          /\ cleanup'.removed = {f \in TransientPaths : fs[f].present}]_vars

\* C11 happens: the cleanup found and removed a file at each of the seven
\* paths, skipped nothing else, and the artifact is still there.
C11_Witness ==
  /\ cleanup.pc = "done"
  /\ cleanup.removed = TransientPaths
  /\ fs["sub.txt"].present
  /\ fs["sub.txt"].data # <<>>

(***************************************************************************)
(* C12                                                                     *)
(***************************************************************************)

\* The line starts with one of the schemes of the node pattern.
HasSchemePrefix(line) ==
  \E k \in 1..Len(NodeSchemes) : StartsAt(line, 1, NodeSchemes[k])

\* The line holds one of the schemes of the node pattern somewhere.
HasSchemeAnywhere(line) ==
  \E p \in 1..Len(line) : \E k \in 1..Len(NodeSchemes) : StartsAt(line, p, NodeSchemes[k])

\* The lines of the artifact on disk, when it exists and decodes.
ArtifactLines ==
  IF fs["sub.txt"].present /\ DecodeString(fs["sub.txt"].data).ok
  THEN Split(DecodeString(fs["sub.txt"].data).data, "\n")
  ELSE <<>>

\* What main has sent when deleteNodes has returned, given the node list
\* expected of the artifact on disk: nothing, or the one delete request.
DeleteRequestIs(nodes) ==
  th[Main].hist =
    (IF cfg.UploadURL = <<>> \/ nodes = <<>> THEN <<>>
     ELSE << Ev("post", "", cfg.UploadURL \o PostDeleteNodes, nodes, 0) >>)

\* C12 as the spec has it: when deleteNodes has returned, the request it
\* sent carries exactly the lines of the artifact that start with a scheme
\* of the node pattern, in file order; nothing is sent when there is none,
\* when the artifact is absent or undecodable or when no aggregator URL is
\* configured.
C12_AsStated ==
  th[Main].pc = "cleanupOldFiles" =>
    DeleteRequestIs(SelectSeq(ArtifactLines, HasSchemePrefix))

\* What the code does: the request carries, trimmed, the lines that hold
\* one of the five schemes vless, vmess, trojan, hysteria2, tuic followed
\* by :// anywhere in the line.
C12_LinesWithSchemeAnywhere ==
  th[Main].pc = "cleanupOldFiles" =>
    LET lines == SelectSeq(ArtifactLines, HasSchemeAnywhere)
    IN DeleteRequestIs([k \in 1..Len(lines) |-> TrimSpace(lines[k])])

\* C12 fails: the delete request carries a line that does not start with a
\* scheme.
C12_Witness ==
  \E k \in Deletions(Main) : \E n \in 1..Len(th[Main].hist[k].list) :
    /\ ~HasSchemePrefix(th[Main].hist[k].list[n])
    /\ th[Main].hist[k].list[n] = <<"s","e","e"," ","t","r","o","j","a","n",":","/","/","z">>

(***************************************************************************)
(* C13                                                                     *)
(***************************************************************************)

\* The non-empty lines of a base64 text, <<>> when it does not decode.
DecodedLines(data) ==
  IF DecodeString(data).ok
  THEN SelectSeq(Split(DecodeString(data).data, "\n"), LAMBDA l : l # <<>>)
  ELSE <<>>

\* The lines are a vless, a vmess and a trojan link, in this order.
ThreeLinks(lines) ==
  /\ Len(lines) = 3
  /\ StartsAt(lines[1], 1, <<"v","l","e","s","s",":","/","/">>)
  /\ StartsAt(lines[2], 1, <<"v","m","e","s","s",":","/","/">>)
  /\ StartsAt(lines[3], 1, <<"t","r","o","j","a","n",":","/","/">>)

FailedLookups(t) == {k \in At(t, "lookup") : th[t].hist[k].name # "ok"}

\* C14: when the identity lookup of generateLinks fails (curl fails or its
\* output is no JSON), generateLinks returns an error and nothing else
\* happens in the invocation: the step leaves every file as it is, the
\* thread never opens or writes sub.txt afterwards and publishes nothing
\* (main only sends its keep-alive registration and serves), a request
\* ends with the error and no body, and after a failure in main the
\* cleanup is never launched.
C14_LookupFailureAborts ==
  /\ [](\A t \in Threads : \A k \in FailedLookups(t) :
          /\ th[t].err = "links"
          /\ th[t].pc \in (IF t = Main THEN {"addVisitTask", "serve"} ELSE {"done"})
          /\ At(t, "open") = {} /\ At(t, "write") = {} /\ At(t, "go") = {}
          /\ \A j \in (k + 1)..Len(th[t].hist) :
               /\ t = Main
               /\ th[t].hist[j].op \in {"post", "serve"}
               /\ th[t].hist[j].op = "post" => th[t].hist[j].text = VisitURL
          /\ \A j \in 1..Len(th[t].hist) : ~IsPublication(th[t].hist[j])
          /\ t = Main => cleanup.launched = 0 /\ cleanup.pc = "none"
          /\ t \in Requests => th[t].out = <<>>)
  /\ [][\A t \in Threads :
          th[t].pc = "lookup" /\ th'[t].err = "links" =>
            fs' = fs /\ cleanup' = cleanup]_vars

\* C14 happens: the lookup failed in the startup pipeline, main serves
\* without having launched the cleanup, and the lookup of a request failed
\* in the other way; sub.txt has not been created.
C14_Witness ==
  /\ th[Main].pc = "serve"
  /\ \E k \in FailedLookups(Main) : th[Main].hist[k].name = "parseErr"
  /\ \E t \in Requests :
       /\ th[t].pc = "done"
       /\ \E k \in FailedLookups(t) : th[t].hist[k].name = "cmdErr"
  /\ ~fs["sub.txt"].present
  /\ cleanup.launched = 0

(***************************************************************************)
(* C15                                                                     *)
(***************************************************************************)

\* The tunnel client has been launched with --config tunnel.yml.
LaunchedWithConfigFile ==
  \E k \in AtName(Main, "start", "bot") :
    /\ bot.mode = "config"
    /\ th[Main].hist[k].list[2] = PathOf(<<"t","u","n","n","e","l",".","y","m","l">>)

\* generateArgoConfig has written tunnel.yml in this run, before the launch
\* of the tunnel client, and the file is there.
IngressRendered ==
  /\ fs["tunnel.yml"].present
  /\ \E j \in AtName(Main, "render", "tunnel.yml") :
       \A k \in AtName(Main, "start", "bot") : j < k

\* C15 as the spec has it: whenever the tunnel client is launched in
\* config-file mode, tunnel.yml has been written by generateArgoConfig
\* earlier in the run, for every Config.
C15_AsStated == LaunchedWithConfigFile => IngressRendered

\* What the code does: a client launched in config-file mode finds the
\* document rendered exactly when the hostname is set and the credential
\* is a JSON object with a TunnelID string.
C15_RenderedIffComplete ==
  LaunchedWithConfigFile =>
    (IngressRendered <=> cfg.ArgoDomain # <<>> /\ ParseTunnelID(cfg.ArgoAuth).ok)

\* C15 fails: the client runs with --config tunnel.yml, the hostname is
\* empty and no tunnel.yml exists.
C15_Witness ==
  /\ LaunchedWithConfigFile
  /\ bot.running
  /\ cfg.ArgoDomain = <<>>
  /\ cfg.ArgoAuth = SecretJSON
  /\ ~fs["tunnel.yml"].present
  /\ AtName(Main, "render", "tunnel.yml") = {}

(***************************************************************************)
(* C16                                                                     *)
(***************************************************************************)

\* Thread t has taken the fast path of extractDomains.
TookFastPath(t) == \E k \in At(t, "resolve") : th[t].hist[k].name = "fast"

\* Thread t has taken the polling path: it has read boot.log in the loop,
\* returned a hostname from it or timed out.
TookSlowPath(t) ==
  \/ th[t].i > 0
  \/ At(t, "timeout") # {}
  \/ \E k \in At(t, "resolve") : th[t].hist[k].name = "slow"

\* The path every resolver call has taken agrees with the mode in which
\* the tunnel client was started.
PathAgreesWithMode ==
  \A t \in Threads :
    /\ TookSlowPath(t) => StartedModes = {"quick"}
    /\ TookFastPath(t) => StartedModes \subseteq {"token", "config"}

\* C16 as the spec has it: in every run in which the tunnel client was
\* started, the resolver polls the log exactly when the client was started
\* in quick-tunnel mode and takes the fast path exactly when it was
\* started in token or config-file mode.
C16_AsStated == StartedModes # {} => PathAgreesWithMode

\* What the code does: the path follows the two settings, the mode follows
\* the credential; they agree in the runs where the hostname is set exactly
\* when the credential selects a named-tunnel mode.
C16_AgreesWhenConsistent ==
  /\ \A t \in Threads :
       /\ TookFastPath(t) => BothTunnelSettings
       /\ TookSlowPath(t) => ~BothTunnelSettings
  /\ (StartedModes # {} /\ (cfg.ArgoDomain # <<>> <=> StartedModes # {"quick"}))
       => PathAgreesWithMode

\* C16 fails: the client runs in quick-tunnel mode, logging to boot.log,
\* and the resolver returned the configured hostname by the fast path.
C16_Witness ==
  /\ StartedModes = {"quick"}
  /\ bot.running
  /\ cfg.ArgoAuth = <<"a","b","c">>
  /\ TookFastPath(Main)
  /\ th[Main].domain = TunnelHost
  /\ th[Main].pc = "serve"

(***************************************************************************)
(* C17                                                                     *)
(***************************************************************************)

\* The startup pipeline has succeeded: startServices has returned nil.
PipelineSucceeded ==
  th[Main].pc \in {"addVisitTask", "serve"} /\ th[Main].err = ""

\* C17: the cleanup task is launched at most once, by main and by no
\* request, exactly when startServices succeeds: after the resolver
\* returned a hostname, the lookup succeeded, the artifact was written and
\* uploadNodes returned, and never after an error.  The launch itself
\* removes nothing and main goes on at once: the keep-alive registration
\* and the serving do not wait for the task, which is still in its sleep
\* when main goes on.
C17_LaunchOnSuccessOnly ==
  /\ [](/\ cleanup.launched <= 1
        /\ cleanup.launched = Cardinality(At(Main, "go"))
        /\ \A t \in Requests : At(t, "go") = {}
        /\ cleanup.launched = 1 <=> PipelineSucceeded
        /\ cleanup.pc = "none" <=> cleanup.launched = 0
        /\ \A k \in At(Main, "go") :
             /\ th[Main].err = ""
             /\ At(Main, "timeout") = {} /\ FailedLookups(Main) = {}
             /\ \E r \in At(Main, "resolve") : \E l \in At(Main, "lookup") :
                  \E w \in At(Main, "write") : r < l /\ l < w /\ w < k
             /\ \A j \in 1..Len(th[Main].hist) :
                  IsPublication(th[Main].hist[j]) => j < k
        /\ th[Main].pc = "addVisitTask" => ENABLED main_addVisitTask)
  /\ [][th[Main].pc = "goCleanup" /\ th'[Main].pc # "goCleanup" =>
          /\ th'[Main].pc = "addVisitTask"
          /\ cleanup.pc = "none" /\ cleanup'.pc = "sleeping"
          /\ fs' = fs]_vars

\* C17 happens: the pipeline succeeded and published, the task was launched
\* once, and main serves and a request has been answered while the task
\* is still in its sleep, the transient files still there.
C17_Witness ==
  /\ cleanup.launched = 1
  /\ cleanup.pc = "sleeping"
  /\ th[Main].pc = "serve"
  /\ \E j \in 1..Len(th[Main].hist) : IsPublication(th[Main].hist[j])
  /\ fs["config.json"].present
  /\ \E t \in Requests : th[t].pc = "done" /\ th[t].out # <<>>

(***************************************************************************)
(* C18                                                                     *)
(***************************************************************************)

\* The threads that hold sub.txt open for writing: os.WriteFile has opened
\* and truncated it and has not written yet.
ArtifactWriters == {t \in Threads : th[t].pc = "write"}

\* C18 as the spec has it: no file has two writers at a time; sub.txt is
\* never open for writing in two threads at once.
C18_AsStated == Cardinality(ArtifactWriters) <= 1

\* What the code does: main never writes sub.txt beside a request, since
\* it writes before it serves, and boot.log changes hands in sequence
\* (main creates it, then the tunnel client writes it, then the cleanup
\* task removes it); but the requests served at the same time all write
\* sub.txt.
C18_MainAndLogAlone ==
  /\ [](/\ Main \in ArtifactWriters => ArtifactWriters = {Main}
        /\ th[Main].pc \in {"open", "write"} => \A t \in Requests : th[t].pc = "idle"
        /\ bot.running => AtName(Main, "start", "bot") # {} /\ th[Main].pc # "bot")
  /\ [][fs'["boot.log"] # fs["boot.log"] =>
          \/ th[Main].pc = "bot" /\ ~bot.running /\ fs'["boot.log"] = File(<<>>, FALSE)
          \/ bot.running /\ bot'.writes = bot.writes + 1 /\ th' = th
          \/ cleanup.pc = "sleeping" /\ cleanup'.pc = "done" /\ th' = th /\ bot' = bot]_vars

\* C18 fails: two requests have both opened and truncated sub.txt and
\* neither has written yet.
C18_Witness ==
  /\ Cardinality(ArtifactWriters) = 2
  /\ ArtifactWriters \subseteq Requests
  /\ fs["sub.txt"] = File(<<>>, FALSE)
  /\ th[Main].pc = "serve"

(***************************************************************************)
(* C19                                                                     *)
(***************************************************************************)

\* The text is the encoding of one complete generation of this run: what
\* some thread that wrote sub.txt had to write.
IsCompleteArtifact(data) ==
  /\ data # <<>>
  /\ \E t \in Threads :
       /\ At(t, "write") # {}
       /\ Len(data) = Len(EncodedContent(cfg, th[t].domain, th[t].isp))
       /\ data = EncodedContent(cfg, th[t].domain, th[t].isp)

\* C19 as the spec has it: the body a request returns is one complete
\* artifact; the publish step that reads the artifact finds its three
\* nodes; and once sub.txt has been written and no write is under way it
\* holds one complete artifact, nothing of an earlier one after it.
C19_AsStated ==
  /\ \A t \in Requests : At(t, "respond") # {} => th[t].out # <<>>
  /\ (cfg.UploadURL # <<>> /\ cfg.ProjectURL = <<>>) =>
       \A t \in Threads : Uploaded(t) =>
         \E k \in Publications(t) : Len(th[t].hist[k].list) = 3
  /\ \A t \in Requests : At(t, "respond") # {} => IsCompleteArtifact(th[t].out)
  /\ (ArtifactWriters = {} /\ fs["sub.txt"].present /\ \E t \in Threads : At(t, "write") # {})
       => IsCompleteArtifact(fs["sub.txt"].data)

\* What the code does when calls do not overlap: a write that finds the
\* file as its own truncation left it leaves exactly its text, and the
\* artifact main wrote alone is complete until a request opens it.
C19_CompleteWhenAlone ==
  /\ []((\A t \in Requests : At(t, "open") = {}) /\ Uploaded(Main)
          => IsCompleteArtifact(fs["sub.txt"].data))
  /\ [][\A t \in Threads :
          (th[t].pc = "write" /\ th'[t].pc = "uploadNodes"
           /\ fs["sub.txt"] = File(<<>>, FALSE)) =>
            fs'["sub.txt"].data = EncodedContent(cfg, th[t].domain, th[t].isp)]_vars

\* C19 fails: all requests are answered, no write is under way, sub.txt
\* holds a shorter artifact followed by the end of a longer one, and a
\* request has returned that text.
C19_Witness ==
  /\ ArtifactWriters = {}
  /\ \A t \in Requests : th[t].pc = "done"
  /\ fs["sub.txt"].present
  /\ ~IsCompleteArtifact(fs["sub.txt"].data)
  /\ \E t \in Requests :
       /\ At(t, "write") # {}
       /\ Len(fs["sub.txt"].data) > Len(EncodedContent(cfg, th[t].domain, th[t].isp))
       /\ Slice(fs["sub.txt"].data, 1, Len(EncodedContent(cfg, th[t].domain, th[t].isp)))
            = EncodedContent(cfg, th[t].domain, th[t].isp)
  /\ \E t \in Requests : At(t, "respond") # {} /\ th[t].out = fs["sub.txt"].data

(***************************************************************************)
(* C20                                                                     *)
(***************************************************************************)

\* The startup run discovered a hostname.
StartupResolved == At(Main, "resolve") # {}

\* Request t did what the route is to do: it has not failed in the
\* resolver; once it has a hostname it is the one of the startup run; and
\* when it has ended without a failed lookup it has returned sub.txt.
Answers(t) ==
  /\ At(t, "timeout") = {} /\ th[t].err # "extract"
  /\ \A k \in At(t, "resolve") : th[t].hist[k].text = th[Main].domain
  /\ (th[t].pc = "done" /\ FailedLookups(t) = {}) => At(t, "respond") # {}

\* C20 as the spec has it: after a startup run that discovered a hostname,
\* every request whose lookup succeeds discovers the same hostname and
\* returns the artifact, also after the cleanup task has removed its
\* files, in quick-tunnel mode as in the named-tunnel modes.
C20_AsStated == StartupResolved => \A t \in Requests : Answers(t)

\* What the code does: with both tunnel settings (fast path) every
\* request answers; without them a request answers as long as boot.log is
\* there, and a request that polls after the cleanup task removed boot.log
\* fails with the timeout.
C20_UntilLogRemoved ==
  StartupResolved =>
    \A t \in Requests :
      /\ (BothTunnelSettings \/ cleanup.pc # "done") => Answers(t) /\ th[t].i = 0
      /\ (th[t].i > 0 \/ At(t, "timeout") # {}) =>
           "boot.log" \in cleanup.removed /\ ~BothTunnelSettings

\* C20 fails: the quick tunnel runs, the startup run read its hostname
\* from boot.log and wrote the artifact, the cleanup task removed
\* boot.log, and the request that came afterwards ended with the timeout
\* and no body.
C20_Witness ==
  /\ StartedModes = {"quick"}
  /\ bot.running
  /\ AtName(Main, "resolve", "slow") # {}
  /\ fs["sub.txt"].present /\ fs["sub.txt"].data # <<>>
  /\ "boot.log" \in cleanup.removed
  /\ \E t \in Requests :
       /\ th[t].pc = "done"
       /\ th[t].err = "extract"
       /\ At(t, "timeout") # {}
       /\ At(t, "respond") = {}
       /\ th[t].out = <<>>

(***************************************************************************)
(* C21                                                                     *)
(***************************************************************************)

\* Main sent the keep-alive registration.
KeepAliveSent == \E k \in At(Main, "post") : th[Main].hist[k].text = VisitURL

\* C21: when main is scheduled and its calls return, every run reaches the
\* start of the HTTP server, whatever failed on the way (a download, the
\* start of a subprocess, the resolver, the identity lookup).  A failed
\* startServices only skips the rest of the pipeline and the cleanup task:
\* main goes on to the keep-alive registration, which it sends when it is
\* configured, and then serves.
C21_AlwaysServes ==
  /\ <>(th[Main].pc = "serve")
  /\ [](/\ th[Main].err # "" =>
             /\ th[Main].pc \in {"addVisitTask", "serve"}
             /\ cleanup.launched = 0
             /\ At(Main, "go") = {}
        /\ th[Main].pc = "serve" =>
             /\ At(Main, "serve") # {}
             /\ KeepAliveSent <=> (cfg.AutoAccess /\ cfg.ProjectURL # <<>>))

\* C21 happens: startServices failed, the cleanup task was not launched,
\* and main sent the keep-alive registration and serves.
C21_Witness ==
  /\ th[Main].pc = "serve"
  /\ th[Main].err # ""
  /\ cleanup.launched = 0
  /\ KeepAliveSent
  /\ At(Main, "serve") # {}

=============================================================================
